---------------------------- MODULE Spec2Model ----------------------------
(***************************************************************************)
(* A model of the discord-amazon-rekognition bot: the interaction handler  *)
(* of index.js and the /rekognition command of commands/rekognition.js     *)
(* (execute, handleAnalyze, handleCompare, runAnalyses, compareFaces,      *)
(* handleError).                                                           *)
(*                                                                         *)
(* Environment.  The remote vision service, the image download and the     *)
(* user's options are nondeterministic inputs.  The chat platform's own    *)
(* calls (deferReply, editReply) and the local file writes are taken to    *)
(* succeed: their failures are not among the failures modelled here.  The  *)
(* remote client and the download reject with Error objects: the message   *)
(* of an error is a string, empty when the error was given none.           *)
(*                                                                         *)
(* Optional strings (a missing option, an undefined error code, an         *)
(* undefined content type) are the empty string: every place of the code   *)
(* that reads one tests its truthiness, compares it with a non-empty       *)
(* literal or calls startsWith through ?. on it, and null, undefined and   *)
(* "" behave alike there.  Optional objects and numbers are <<>> (absent)  *)
(* or a one-element sequence.                                              *)
(***************************************************************************)
EXTENDS Integers, Sequences, FiniteSets, TLC

(***************************************************************************)
(* JavaScript numbers.  A number is an IEEE-754 double: zero, or m * 2^e   *)
(* with 2^52 <= m < 2^53.  The 53-bit integer m is written in base 2^16,   *)
(* most significant limb first (TLC's integers have 32 bits).  Division    *)
(* and multiplication by a small integer literal are computed exactly on   *)
(* the limbs and rounded to nearest, ties to even, as the hardware does.   *)
(* The values of the model stay far inside the normal range, so overflow   *)
(* and subnormals do not arise.                                            *)
(***************************************************************************)
MantissaBits == 53
LimbBits == 16
MantissaLimbs == 4

Limb == 2 ^ LimbBits

RECURSIVE BitLen(_)
BitLen(n) == IF n = 0 THEN 0 ELSE 1 + BitLen(n \div 2)

RECURSIVE StripZeros(_)
StripZeros(a) ==
    IF a # <<>> /\ Head(a) = 0 THEN StripZeros(Tail(a)) ELSE a

\* the bit length of the natural number written by the limbs a
NatBitLen(a) ==
    LET s == StripZeros(a)
    IN  IF s = <<>> THEN 0 ELSE BitLen(Head(s)) + LimbBits * (Len(s) - 1)

\* limb k of a counted from the least significant one (k = 0), 0 outside
LimbLS(a, k) == IF k >= 0 /\ k < Len(a) THEN a[Len(a) - k] ELSE 0

\* bit i of a (i = 0 the least significant)
BitAt(a, i) == (LimbLS(a, i \div LimbBits) \div (2 ^ (i % LimbBits))) % 2

\* a + 1
RECURSIVE NatInc(_)
NatInc(a) ==
    IF a = <<>> THEN <<1>>
    ELSE IF a[Len(a)] + 1 < Limb THEN [a EXCEPT ![Len(a)] = @ + 1]
    ELSE Append(NatInc(SubSeq(a, 1, Len(a) - 1)), 0)

\* a * d + carry
RECURSIVE NatMul(_, _, _)
NatMul(a, d, carry) ==
    IF a = <<>> THEN (IF carry = 0 THEN <<>> ELSE <<carry>>)
    ELSE Append(NatMul(SubSeq(a, 1, Len(a) - 1), d,
                       (a[Len(a)] * d + carry) \div Limb),
                (a[Len(a)] * d + carry) % Limb)

\* the quotient (q, as many limbs as a) and the remainder (r) of a by d,
\* given the remainder r0 carried in from the limbs above a
RECURSIVE NatDivQ(_, _, _)
NatDivQ(a, d, r0) ==
    IF a = <<>> THEN <<>>
    ELSE <<(r0 * Limb + Head(a)) \div d>>
         \o NatDivQ(Tail(a), d, (r0 * Limb + Head(a)) % d)

RECURSIVE NatDivR(_, _, _)
NatDivR(a, d, r0) ==
    IF a = <<>> THEN r0 ELSE NatDivR(Tail(a), d, (r0 * Limb + Head(a)) % d)

\* floor(a / 2^s) on MantissaLimbs limbs
ShiftRight(a, s) ==
    LET w == s \div LimbBits
        b == s % LimbBits
    IN  [i \in 1..MantissaLimbs |->
            LET j == MantissaLimbs - i
            IN  (LimbLS(a, j + w) \div (2 ^ b))
                + (LimbLS(a, j + w + 1) % (2 ^ b)) * (2 ^ (LimbBits - b))]

\* a * 2^t on MantissaLimbs limbs (for a * 2^t < 2^MantissaBits)
ShiftLeft(a, t) ==
    LET w == t \div LimbBits
        b == t % LimbBits
    IN  [i \in 1..MantissaLimbs |->
            LET j == MantissaLimbs - i
            IN  ((LimbLS(a, j - w) * (2 ^ b)) % Limb)
                + (LimbLS(a, j - w - 1) \div (2 ^ (LimbBits - b)))]

DblZero == [m |-> [i \in 1..MantissaLimbs |-> 0], e |-> 0]

\* the double nearest to a * 2^e (plus a non-zero fraction below the last
\* bit of a when sticky), ties to even; a is not zero
RoundNat(a, e, sticky) ==
    LET len == NatBitLen(a)
    IN  IF len <= MantissaBits
        THEN [m |-> ShiftLeft(a, MantissaBits - len), e |-> e - (MantissaBits - len)]
        ELSE LET s     == len - MantissaBits
                 keep  == ShiftRight(a, s)
                 guard == BitAt(a, s - 1)
                 rest  == sticky \/ \E i \in 0..(s - 2) : BitAt(a, i) = 1
                 up    == guard = 1 /\ (rest \/ keep[MantissaLimbs] % 2 = 1)
                 inc   == NatInc(keep)
             IN  IF ~up THEN [m |-> keep, e |-> e + s]
                 ELSE IF NatBitLen(inc) > MantissaBits
                      THEN [m |-> ShiftRight(inc, 1), e |-> e + s + 1]
                      ELSE [m |-> inc, e |-> e + s]

DblFromInt(n) == IF n = 0 THEN DblZero ELSE RoundNat(<<n>>, 0, FALSE)

\* x / d for an integer literal 0 < d < 2^15
DblDiv(x, d) ==
    IF x = DblZero THEN DblZero
    ELSE LET num == Append(x.m, 0)
         IN  RoundNat(NatDivQ(num, d, 0), x.e - LimbBits, NatDivR(num, d, 0) # 0)

\* x * d for an integer literal 0 < d < 2^15
DblMul(x, d) ==
    IF x = DblZero THEN DblZero
    ELSE RoundNat(NatMul(x.m, d, 0), x.e, FALSE)

\* a || b on numbers: 0 is falsy
NumOr(a, b) == IF a = DblZero THEN b ELSE a

(***************************************************************************)
(* Strings.                                                                *)
(***************************************************************************)
\* String.prototype.startsWith
StartsWith(s, prefix) ==
    Len(s) >= Len(prefix) /\ SubSeq(s, 1, Len(prefix)) = prefix

\* String.prototype.includes (case-sensitive)
Includes(s, part) ==
    \E i \in 1..(Len(s) - Len(part) + 1) : SubSeq(s, i, i + Len(part) - 1) = part

(***************************************************************************)
(* A string whose single characters the program's result depends on (the   *)
(* text of the embed, which is cut at a length, and the strings of the     *)
(* report, which are escaped) is kept as the sequence of its UTF-16 code   *)
(* units, numbers from 0 to 65535: the length of a JavaScript string is    *)
(* the number of its code units.                                           *)
(***************************************************************************)
\* the grave accent (96)
GraveAccent == SubSeq("`'", 1, 1)

\* the printable ASCII characters, from the space (32) to the tilde (126)
Printable ==
    " !\"#$%&'()*+,-./0123456789:;<=>?@ABCDEFGHIJKLMNOPQRSTUVWXYZ[\\]^_"
        \o GraveAccent \o "abcdefghijklmnopqrstuvwxyz{|}~"

\* String.prototype.charCodeAt of a character the strings of this module
\* are written with: a printable ASCII character, tab, line feed, form feed
\* or carriage return
CharCode ==
    [ c \in {SubSeq(Printable, i, i) : i \in 1..95} \cup {"\t", "\n", "\f", "\r"} |->
        IF c = "\t" THEN 9 ELSE IF c = "\n" THEN 10
        ELSE IF c = "\f" THEN 12 ELSE IF c = "\r" THEN 13
        ELSE 31 + (CHOOSE i \in 1..95 : SubSeq(Printable, i, i) = c) ]

\* the code units of a string written with those characters
CodeUnits(s) == [i \in 1..Len(s) |-> CharCode[SubSeq(s, i, i)]]

(***************************************************************************)
(* URLs.  new URL(string) is the WHATWG URL parser of the Node runtime,    *)
(* not code of this repository: the program reads the protocol and the     *)
(* pathname of what the constructor returns and catches what it throws.    *)
(* NewURL holds, for each URL string a request is given, what the          *)
(* constructor does with it: <<>> when it throws, else the URL object      *)
(* (its protocol and its pathname, the path percent-encoded).              *)
(***************************************************************************)
\* the URL object the constructor returns
URLObject(protocol, pathname) == << [protocol |-> protocol, pathname |-> pathname] >>

\* new URL(string) for the URL strings given:
\*   an upper-case scheme is lower-cased; a scheme alone, a path without a
\*   scheme and a host label that is no valid Punycode make the constructor
\*   throw; ftp: and file: are parsed (a drive letter stays in the path);
\*   the host may be percent-encoded or hold non-ASCII letters; a space in
\*   the path is percent-encoded
NewURL ==
    ("HTTP://h/a.png" :> URLObject("http:", "/a.png"))
    @@ ("https://h/a" :> URLObject("https:", "/a"))
    @@ ("https://h/a.p g" :> URLObject("https:", "/a.p%20g"))
    @@ ("https://%68/a.png" :> URLObject("https:", "/a.png"))
    @@ ("https://bücher.example/a.png" :> URLObject("https:", "/a.png"))
    @@ ("ftp://h/a.png" :> URLObject("ftp:", "/a.png"))
    @@ ("file:///C:/a.png" :> URLObject("file:", "/C:/a.png"))
    @@ ("https:" :> <<>>)
    @@ ("h/a.png" :> <<>>)
    @@ ("https://xn--a-9ca/a" :> <<>>)

\* url.protocol of what the constructor gave, "" when it threw
ProtocolOf(parsed) == IF parsed = <<>> THEN "" ELSE parsed[1].protocol

\* new URL(url).protocol, "" when new URL throws
Protocol(url) == ProtocolOf(NewURL[url])

\* new URL(url).pathname of a URL that parses
Pathname(url) == NewURL[url][1].pathname

\* path.extname: from the last '.' of the last segment of the path on; ''
\* when that segment has no '.', starts with its only '.' or is '..'
Extname(path) ==
    LET bare == {i \in 1..Len(path) : SubSeq(path, i, i) # "/"}
        end == IF bare = {} THEN 0 ELSE CHOOSE i \in bare : \A j \in bare : i >= j
        separators == {i \in 1..end : SubSeq(path, i, i) = "/"}
        startPart == IF separators = {} THEN 1
                     ELSE (CHOOSE i \in separators : \A j \in separators : i >= j) + 1
        dots == {i \in startPart..end : SubSeq(path, i, i) = "."}
        startDot == IF dots = {} THEN 0 ELSE CHOOSE i \in dots : \A j \in dots : i >= j
    IN  IF dots = {} \/ startDot = startPart THEN ""
        ELSE IF /\ SubSeq(path, startPart, startPart) = "."
                /\ startDot = end
                /\ startDot = startPart + 1
        THEN ""
        ELSE SubSeq(path, startDot, end)

\* isValidUrl: ['http:', 'https:'].includes(new URL(url).protocol), false
\* when new URL throws
isValidUrl(url) == Protocol(url) \in {"http:", "https:"}

(***************************************************************************)
(* Errors: the code reads an error's code and message only.                *)
(***************************************************************************)
Error(message) == [message |-> message, code |-> ""]

(***************************************************************************)
(* The inputs.                                                             *)
(***************************************************************************)
\* the five analysis features, in the order runAnalyses tests them
Features == {"labels", "text", "faces", "moderation", "celebrities"}

\* client.commands: the commands directory holds rekognition.js alone
Commands == {"rekognition"}

\* the number of distinct success payloads the remote service may return
MaxPayload == 2
Payloads == {[payload |-> n] : n \in 1..MaxPayload}

\* the range of the similarity option (setMinValue, setMaxValue) and its default
MinSimilarity == 0
MaxSimilarity == 100
DefaultSimilarity == 80

NoFaceError ==
    [message |-> "There are no faces in the image", code |-> "InvalidParameterException"]

\* errors of the remote vision service
RemoteErrors ==
    { NoFaceError,
      [message |-> "Request has invalid parameters", code |-> "InvalidParameterException"],
      [message |-> "no face", code |-> "ValidationException"],
      [message |-> "User is not authorized", code |-> "AccessDeniedException"],
      [message |-> "Request has invalid image format", code |-> "InvalidImageFormatException"],
      [message |-> "Image size is too large", code |-> "ImageTooLargeException"],
      [message |-> "Rate exceeded", code |-> "ThrottlingException"],
      [message |-> "", code |-> ""] }

\* the errors drawn for a feature's call: runAnalyses reads the message only
FeatureErrors ==
    {e \in RemoteErrors : e.code \in {"AccessDeniedException", "ThrottlingException"}}

NoError == Error("")
NoData == [payload |-> 0]

Succeeded(data) == [data |-> data, ok |-> TRUE, error |-> NoError]
Failed(err) == [data |-> NoData, ok |-> FALSE, error |-> err]

\* responses of axios.get
DownloadOutcomes ==
    { [ok |-> TRUE, error |-> NoError, contentType |-> "image/jpeg"],
      [ok |-> TRUE, error |-> NoError, contentType |-> "text/html"],
      [ok |-> TRUE, error |-> NoError, contentType |-> ""],
      [ok |-> FALSE,
       error |-> [message |-> "timeout of 15000ms exceeded", code |-> "ECONNABORTED"],
       contentType |-> ""],
      [ok |-> FALSE,
       error |-> [message |-> "Request failed with status code 404", code |-> "ERR_BAD_REQUEST"],
       contentType |-> ""] }

Attachments ==
    { [contentType |-> "image/png", name |-> "photo.png"],
      [contentType |-> "text/plain", name |-> "notes.txt"] }

\* the url options given to analyze and compare: three the program takes
\* (an upper-case scheme, a percent-encoded host, a host with a non-ASCII
\* letter) and five it refuses (two that are no http URLs, three that make
\* the constructor throw)
Urls ==
    { "HTTP://h/a.png", "https://%68/a.png", "https://bücher.example/a.png",
      "ftp://h/a.png", "file:///C:/a.png", "https:", "h/a.png", "https://xn--a-9ca/a" }

OptionalAttachment == {<<>>} \cup {<<a>> : a \in Attachments}
OptionalUrl == {""} \cup Urls
FeatureOptions == {"", "all"} \cup Features

\* the similarity option is declared with addNumberOption: its value is a
\* double from 0 to 100.  The values drawn are the doubles nearest to the
\* decimal fractions k / SimilarityScale (what "82.5" or "0.9" is read as)
SimilarityScale == 10
SimilarityValue(k) == DblDiv(DblFromInt(k), SimilarityScale)

\* the similarity options of the whole-program specification
SimilaritySamples == {<<>>, <<DblZero>>, <<DblFromInt(75)>>}
\* the similarity options the command accepts: none, or a number from the
\* minimum to the maximum (the fractions above and 99.99)
SimilarityRange ==
    {<<>>} \cup { <<SimilarityValue(k)>> :
                     k \in (MinSimilarity * SimilarityScale)..(MaxSimilarity * SimilarityScale) }
           \cup { <<DblDiv(DblFromInt(9999), 100)>> }

NoOptions ==
    [ url |-> "", isChatInputCommand |-> TRUE, commandName |-> "rekognition",
      subcommand |-> "", image |-> <<>>, features |-> "",
      source_url |-> "", source_image |-> <<>>,
      target_url |-> "", target_image |-> <<>>, similarity |-> <<>> ]

AnalyzeInteractions ==
    { [NoOptions EXCEPT !.subcommand = "analyze", !.url = u, !.image = a, !.features = f] :
        u \in OptionalUrl, a \in OptionalAttachment, f \in FeatureOptions }

CompareInteractions(similarities) ==
    { [NoOptions EXCEPT !.subcommand = "compare", !.source_url = su, !.source_image = sa,
                        !.target_url = tu, !.target_image = ta, !.similarity = p] :
        su \in OptionalUrl, sa \in OptionalAttachment,
        tu \in OptionalUrl, ta \in OptionalAttachment, p \in similarities }

\* an interaction that is no slash command, a command that is not loaded,
\* a subcommand the command does not know
OtherInteractions ==
    { [NoOptions EXCEPT !.isChatInputCommand = FALSE],
      [NoOptions EXCEPT !.commandName = "ping"],
      [NoOptions EXCEPT !.subcommand = "detect"] }

Environments == [AWS_ACCESS_KEY_ID : {"", "AKIA"}, AWS_SECRET_ACCESS_KEY : {"", "secret"}]

(***************************************************************************)
(* Image acquisition: processUploadedImage and processImageUrl, each cut   *)
(* at its one await (axios.get).  A step either goes on or throws.         *)
(***************************************************************************)
Ok == [error |-> NoError, throws |-> FALSE]
Throw(err) == [error |-> err, throws |-> TRUE]

\* processUploadedImage before the download
processUploadedImageCheck(attachment) ==
    IF ~StartsWith(attachment.contentType, "image/")
    THEN Throw(Error("Invalid file type. Please upload a valid image file (JPEG, PNG, etc.)."))
    ELSE Ok

\* processUploadedImage from the response of the download on
processUploadedImageResult(response) ==
    IF response.ok THEN Ok
    ELSE Throw(Error("Failed to process uploaded image: " \o response.error.message))

\* processImageUrl before the download
processImageUrlCheck(url) ==
    IF ~isValidUrl(url)
    THEN Throw(Error("Invalid URL. Please provide a valid image URL starting with http:// or https://"))
    ELSE Ok

\* processImageUrlTry without its content-type test: a variant the
\* acquisition properties must tell from the code
processImageUrlTryUnchecked(response) ==
    IF ~response.ok THEN Throw(response.error) ELSE Ok

\* the try block of processImageUrl from the response on
processImageUrlTry(response) ==
    IF ~response.ok THEN Throw(response.error)
    ELSE IF ~StartsWith(response.contentType, "image/")
    THEN Throw(Error("URL does not point to an image (received: "
                     \o (IF response.contentType = "" THEN "unknown" ELSE response.contentType)
                     \o ")"))
    ELSE Ok

\* processImageUrl from the response on: the catch block rewrites the error
processImageUrlResult(response) ==
    LET tried == processImageUrlTry(response)
    IN  IF ~tried.throws THEN Ok
        ELSE IF tried.error.code = "ECONNABORTED"
        THEN Throw(Error("Timeout while downloading image. Please try a different URL."))
        ELSE Throw(Error("Failed to download image: " \o tried.error.message))

\* uploaded ? processUploadedImage(uploaded) : processImageUrl(url)
ProcessCheck(uploaded, url) ==
    IF uploaded # <<>> THEN processUploadedImageCheck(uploaded[1])
    ELSE processImageUrlCheck(url)

ProcessResult(uploaded, response) ==
    IF uploaded # <<>> THEN processUploadedImageResult(response)
    ELSE processImageUrlResult(response)

\* the description field of the result
Description(uploaded, url, prefix) ==
    IF uploaded # <<>>
    THEN "uploaded " \o (IF prefix # "" THEN prefix \o " " ELSE "") \o "image ("
         \o uploaded[1].name \o ")"
    ELSE url

(***************************************************************************)
(* The pure parts of the handlers.                                         *)
(***************************************************************************)
Reply(content) == [content |-> content, text |-> "", files |-> <<>>]

\* !process.env.AWS_ACCESS_KEY_ID || !process.env.AWS_SECRET_ACCESS_KEY
CredentialsMissing(e) == e.AWS_ACCESS_KEY_ID = "" \/ e.AWS_SECRET_ACCESS_KEY = ""

\* TempDirAfterTry creating the directory before the credentials are
\* looked at: a variant the configuration properties must tell from the code
TempDirAfterTryEager(e, dir) == IF dir = "absent" THEN "created" ELSE dir

\* execute: the temp directory after the credentials check and
\* if (!fs.existsSync(tempDir)) fs.mkdirSync(tempDir, { recursive: true })
TempDirAfterTry(e, dir) ==
    IF CredentialsMissing(e) THEN dir
    ELSE IF dir = "absent" THEN "created" ELSE dir

\* AnalysisFeatures without the default of the option: a variant the
\* feature properties must tell from the code
AnalysisFeaturesNoDefault(option) ==
    IF option = "all" THEN Features ELSE {option}

\* handleAnalyze: the features option, 'all' by default, expanded
AnalysisFeatures(option) ==
    LET featureOption == IF option = "" THEN "all" ELSE option
    IN  IF featureOption = "all" THEN Features ELSE {featureOption}

\* handleCompare: getNumber('similarity') || 80
SimilarityThreshold(option) ==
    NumOr(IF option = <<>> THEN DblZero ELSE option[1], DblFromInt(DefaultSimilarity))

\* handleCompare: the threshold argument of compareFaces
ThresholdArgument(similarityThreshold) == DblDiv(similarityThreshold, 100)

\* compareFaces: the input of CompareFacesCommand
CompareFacesCommand(threshold) == [SimilarityThreshold |-> DblMul(threshold, 100)]

\* isNoFaceError looking for a capitalised message: a variant the
\* classification properties must tell from the code
isNoFaceErrorCapitalised(error) ==
    error.code = "InvalidParameterException" /\ Includes(error.message, "No face")

\* handleCompare's catch: the test for the no-face failure
isNoFaceError(error) ==
    error.code = "InvalidParameterException" /\ Includes(error.message, "no face")

\* handleErrorReply testing error.message before the codes: a variant the
\* error reply properties must tell from the code
handleErrorReplyMessageFirst(error) ==
    IF error.message # "" THEN [Reply("Error:") EXCEPT !.text = error.message]
    ELSE IF error.code = "InvalidImageFormatException" THEN Reply("Invalid Image Format")
    ELSE IF error.code = "ImageTooLargeException" THEN Reply("Image Too Large")
    ELSE IF error.code = "AccessDeniedException" THEN Reply("Access Denied")
    ELSE Reply("An error occurred while processing your request.")

\* handleError: the reply for an error
handleErrorReply(error) ==
    IF error.code = "InvalidImageFormatException" THEN Reply("Invalid Image Format")
    ELSE IF error.code = "ImageTooLargeException" THEN Reply("Image Too Large")
    ELSE IF error.code = "AccessDeniedException" THEN Reply("Access Denied")
    ELSE IF error.message # "" THEN [Reply("Error:") EXCEPT !.text = error.message]
    ELSE Reply("An error occurred while processing your request.")

\* createAnalysisReport keeping the successful features only: a variant the
\* report properties must tell from the code
createAnalysisReportSuccesses(results, imageSource) ==
    [ results |-> [k \in {j \in DOMAIN results : "error" \notin DOMAIN results[j]} |->
                        results[k]],
      analysisType |-> "comprehensive_image_analysis", source |-> imageSource,
      target |-> "" ]

\* createAnalysisReport and createComparisonReport: the document written
\* (its timestamp left out)
createAnalysisReport(results, imageSource) ==
    [ results |-> results, analysisType |-> "comprehensive_image_analysis",
      source |-> imageSource, target |-> "" ]

createComparisonReport(comparisonResult, sourceDesc, targetDesc) ==
    [ results |-> comparisonResult, analysisType |-> "face_comparison",
      source |-> sourceDesc, target |-> targetDesc ]

(***************************************************************************)
(* runAnalyses: the promise of one feature and the join.                   *)
(***************************************************************************)
\* Dispatched with the text block testing for 'labels', a copy-paste slip:
\* a variant the dispatch properties must tell from the code
DispatchedCopyPaste(features) ==
    {f \in Features : (IF f = "text" THEN "labels" ELSE f) \in features}

\* features.includes(f), for each of the five tests
Dispatched(features) == {f \in Features : f \in features}

\* ResultKey with the text callbacks writing results.labels, a copy-paste
\* slip: a variant the key properties must tell from the code
ResultKeyCopyPaste(f) == IF f = "text" THEN "labels" ELSE f

\* Put making a fresh object of the one member (results = { key: value }
\* in the place of results.key = value): a variant the order properties
\* must tell from the code
PutReplace(results, key, value) == (key :> value)

\* the key of results a feature's callbacks write
ResultKey(f) == f

Put(results, key, value) == (key :> value) @@ results

\* ThenCatch without its .catch: a variant the isolation properties must
\* tell from the code
ThenOnly(f, outcome, results) ==
    IF outcome.ok
    THEN [results |-> Put(results, ResultKey(f), outcome.data), state |-> "fulfilled"]
    ELSE [results |-> results, state |-> "rejected"]

\* call(image).then(data => results.f = data)
\*            .catch(err => results.f = { error: err.message }):
\* the results after the callback ran and the state of the chained promise
ThenCatch(f, outcome, results) ==
    IF outcome.ok
    THEN [results |-> Put(results, ResultKey(f), outcome.data), state |-> "fulfilled"]
    ELSE [results |-> Put(results, ResultKey(f), [error |-> outcome.error.message]),
          state |-> "fulfilled"]

\* ChainWrites with .catch chained before .then: the failure record the
\* .catch callback returns is handed on to the .then callback, which assigns
\* again; a variant the slot properties must tell from the code
ChainWritesCatchFirst(f, outcome) ==
    IF outcome.ok
    THEN << [key |-> ResultKey(f), by |-> f, callback |-> "then"] >>
    ELSE << [key |-> ResultKey(f), by |-> f, callback |-> "catch"],
            [key |-> ResultKey(f), by |-> f, callback |-> "then"] >>

\* the assignments to results the chain of feature f makes when its call
\* settles: the .then callback runs on fulfilment and cannot throw, the
\* .catch callback runs on rejection
ChainWrites(f, outcome) ==
    IF outcome.ok
    THEN << [key |-> ResultKey(f), by |-> f, callback |-> "then"] >>
    ELSE << [key |-> ResultKey(f), by |-> f, callback |-> "catch"] >>

\* the own keys of results after the assignments: an assignment to a key
\* the object does not have adds the key behind the others, an assignment
\* to a key it has leaves the key in its place
RECURSIVE OwnKeysAfter(_, _)
OwnKeysAfter(keys, assignments) ==
    IF assignments = <<>> THEN keys
    ELSE OwnKeysAfter(IF \E i \in 1..Len(keys) : keys[i] = Head(assignments).key
                      THEN keys ELSE Append(keys, Head(assignments).key),
                      Tail(assignments))

\* Promise.race in the place of Promise.all: settled with the first promise
\* that settles; a variant the join properties must tell from the code
PromiseRace(promises, fs) ==
    IF fs = {} THEN "pending"
    ELSE IF \E f \in fs : promises[f] = "rejected" THEN "rejected"
    ELSE IF \E f \in fs : promises[f] = "fulfilled" THEN "fulfilled"
    ELSE "pending"

\* Promise.all over the promises of the set fs: rejected with the first
\* rejection, fulfilled once all are, pending until then
PromiseAll(promises, fs) ==
    IF \E f \in fs : promises[f] = "rejected" THEN "rejected"
    ELSE IF \A f \in fs : promises[f] = "fulfilled" THEN "fulfilled"
    ELSE "pending"

(***************************************************************************)
(* The state.                                                              *)
(***************************************************************************)
VARIABLES
    interaction,       \* the interaction received: its kind, command and options
    env,               \* process.env: the two AWS credentials
    pc,                \* where the handling of the interaction stands
    deferred,          \* interaction.deferred
    replies,           \* the replies sent with editReply, in order
    caught,            \* the error execute's catch block received, if any
    handleErrorCalls,  \* the number of calls of handleError
    timers,            \* the cleanup passes scheduled with setTimeout
    downloads,         \* per image role, the response axios.get gave, if any
    acquired,          \* the image roles whose processing returned a result
    features,          \* runAnalyses: its features argument
    ra_pc,             \* runAnalyses: idle, called, awaiting, returned, thrown
    promises,          \* runAnalyses: per feature, the state of its chained promise
    remote,            \* per feature, how its remote call settled, if it has
    results,           \* runAnalyses: the results object
    calls,             \* per remote operation, the number of calls issued
    threshold,         \* the threshold handed to compareFaces, if called
    sent,              \* the input of the CompareFacesCommand sent, if any
    cmpOutcome,        \* how the remote comparison settled, if it has
    reports,           \* the report documents written, in order
    tempDir,           \* the temp directory: absent, present, or created by execute
    reportFile,        \* the text of the report file written, as its JSON lexemes
    parsedReport,      \* JSON.parse of the report file, once read back
    now,               \* Date.now(), in milliseconds
    files,             \* the temp directory: the mtime of each file in it
    stage,             \* per request, where its handling stands
    images,            \* per request, the images it is given, in the order they are processed
    written,           \* per request, the paths it has written
    due,               \* per request, when its cleanup pass is due, if scheduled
    swept,             \* the last cleanup pass: its time, the directory before and after
    resultsAtReturn,   \* the results as runAnalyses returned them
    embed,             \* the fields of the embed built from the results
    writes,            \* runAnalyses: per key of results, the assignments made to it
    resultKeys         \* the own keys of the results object, in the order they were added

vars == << interaction, env, pc, deferred, replies, caught, handleErrorCalls, timers,
           downloads, acquired, features, ra_pc, promises, remote, results, calls,
           threshold, sent, cmpOutcome, reports, tempDir, reportFile, parsedReport,
           now, files, stage, images, written, due, swept, resultsAtReturn, embed,
           writes, resultKeys >>

inputVars == << interaction, env >>
\* the state of the functions that are also run on their own
reportVars == << reportFile, parsedReport >>
tempVars == << now, files, stage, images, written, due, swept >>
embedVars == << resultsAtReturn, embed >>
unitVars == << reportVars, tempVars, embedVars >>
requestVars == << pc, deferred, replies, caught, handleErrorCalls, timers,
                  downloads, acquired, threshold, sent, cmpOutcome, reports >>
compareVars == << threshold, sent, cmpOutcome >>
runVars == << features, ra_pc, promises, remote, results, writes, resultKeys >>

Roles == {"image", "source", "target"}
Operations == Features \cup {"compareFaces"}

InitRest ==
    /\ deferred = FALSE
    /\ replies = <<>>
    /\ caught = <<>>
    /\ handleErrorCalls = 0
    /\ timers = 0
    /\ downloads = [r \in Roles |-> <<>>]
    /\ acquired = {}
    /\ promises = [f \in Features |-> "none"]
    /\ remote = [f \in Features |-> <<>>]
    /\ writes = [k \in Features |-> <<>>]
    /\ calls = [o \in Operations |-> 0]
    /\ threshold = <<>>
    /\ sent = <<>>
    /\ cmpOutcome = <<>>
    /\ reports = <<>>
    /\ reportFile = <<>>
    /\ parsedReport = <<>>

\* no embed is built
InitEmbedIdle ==
    /\ resultsAtReturn = <<>>
    /\ embed = <<>>

\* no temp directory traffic is followed
InitTempIdle ==
    /\ now = 0
    /\ files = <<>>
    /\ stage = <<>>
    /\ images = <<>>
    /\ written = <<>>
    /\ due = <<>>
    /\ swept = <<>>

InitCommon ==
    /\ results = <<>>
    /\ resultKeys = <<>>
    /\ InitRest
    /\ InitTempIdle
    /\ InitEmbedIdle

\* an interaction arrives
Init ==
    /\ interaction \in AnalyzeInteractions \cup CompareInteractions(SimilaritySamples)
                       \cup OtherInteractions
    /\ env \in Environments
    /\ tempDir \in {"absent", "present"}
    /\ pc = "event"
    /\ features = {}
    /\ ra_pc = "idle"
    /\ InitCommon

(***************************************************************************)
(* runAnalyses.  Its body up to await Promise.all is synchronous: each     *)
(* detectX call issues its request before the next test runs.  A remote    *)
(* call settles in one step with the callback chained on it, which runs    *)
(* as a microtask before any other event is processed.                     *)
(***************************************************************************)
RunAnalysesStart ==
    /\ ra_pc = "called"
    /\ ra_pc' = "awaiting"
    /\ results' = <<>>
    /\ promises' = [f \in Features |->
                        IF f \in Dispatched(features) THEN "pending" ELSE "none"]
    /\ writes' = [k \in Features |-> <<>>]
    /\ resultKeys' = <<>>
    /\ calls' = [o \in Operations |->
                        IF o \in Dispatched(features) THEN calls[o] + 1 ELSE calls[o]]
    /\ UNCHANGED << inputVars, unitVars, tempDir, requestVars, features, remote >>

Settle(f, outcome) ==
    LET after == ThenCatch(f, outcome, results)
    IN  /\ promises[f] = "pending"
        /\ remote' = [remote EXCEPT ![f] = <<outcome>>]
        /\ results' = after.results
        /\ promises' = [promises EXCEPT ![f] = after.state]
        /\ writes' = [k \in Features |->
                          writes[k] \o SelectSeq(ChainWrites(f, outcome),
                                                 LAMBDA w : w.key = k)]
        /\ resultKeys' = OwnKeysAfter(resultKeys, ChainWrites(f, outcome))
        /\ UNCHANGED << inputVars, unitVars, tempDir, requestVars, features, ra_pc, calls >>

\* the answers drawn for the calls of a whole command: a list of labels
\* that is not in the order of confidence for labels and one payload for
\* each other feature (runAnalyses called on its own draws from Payloads)
CommandAnswers(f) ==
    IF f = "labels"
    THEN { [Labels |-> << [Confidence |-> 80, Name |-> "Tree"],
                          [Confidence |-> 95, Name |-> "Dog"] >>] }
    ELSE { [payload |-> 1] }

\* the failures drawn for the calls of a whole command: the call of a
\* request for one feature may fail whatever the feature, in a request for
\* several features the first and the last call issued may fail
\* (runAnalyses called on its own draws from FeatureErrors for every call)
CommandFailing == {"labels", "celebrities"}
CommandErrors(f) ==
    IF Cardinality(features) = 1 \/ f \in CommandFailing
    THEN {e \in FeatureErrors : e.code = "ThrottlingException"}
    ELSE {}

RemoteSucceed(f) ==
    \E data \in (IF pc = "analyzing" THEN CommandAnswers(f) ELSE Payloads) :
        Settle(f, Succeeded(data))

RemoteFail(f) ==
    \E err \in (IF pc = "analyzing" THEN CommandErrors(f) ELSE FeatureErrors) :
        Settle(f, Failed(err))

\* await Promise.all(analyses); return results
RunAnalysesJoin ==
    LET analyses == {f \in Features : promises[f] # "none"}
        all == PromiseAll(promises, analyses)
    IN  /\ ra_pc = "awaiting"
        /\ all # "pending"
        /\ ra_pc' = IF all = "fulfilled" THEN "returned" ELSE "thrown"
        /\ UNCHANGED << inputVars, unitVars, tempDir, requestVars, features, promises, remote, results, writes, resultKeys, calls >>

\* the error Promise.all rejected with
JoinError ==
    LET f == CHOOSE g \in Features : promises[g] = "rejected"
    IN  remote[f][1].error

NextRun ==
    \/ RunAnalysesStart
    \/ \E f \in Features : RemoteSucceed(f)
    \/ \E f \in Features : RemoteFail(f)
    \/ RunAnalysesJoin

\* runAnalyses called on its own with any set of features
InitRun ==
    /\ interaction = NoOptions
    /\ env = [AWS_ACCESS_KEY_ID |-> "AKIA", AWS_SECRET_ACCESS_KEY |-> "secret"]
    /\ tempDir = "present"
    /\ pc = "runAnalyses"
    /\ features \in SUBSET Features
    /\ ra_pc = "called"
    /\ InitCommon

SpecRun == InitRun /\ [][NextRun]_vars

(***************************************************************************)
(* index.js: the InteractionCreate handler, up to the call of execute.     *)
(***************************************************************************)
InteractionCreate ==
    /\ pc = "event"
    /\ pc' = IF ~interaction.isChatInputCommand THEN "ignored"
             ELSE IF interaction.commandName \notin Commands THEN "unknown"
             ELSE "execute"
    /\ UNCHANGED << inputVars, unitVars, tempDir, deferred, replies, caught, handleErrorCalls, timers,
                    downloads, acquired, compareVars, reports, runVars, calls >>

(***************************************************************************)
(* execute.                                                                *)
(***************************************************************************)
\* await interaction.deferReply()
DeferReply ==
    /\ pc = "execute"
    /\ deferred' = TRUE
    /\ pc' = "deferred"
    /\ UNCHANGED << inputVars, unitVars, tempDir, replies, caught, handleErrorCalls, timers,
                    downloads, acquired, compareVars, reports, runVars, calls >>

\* ExecuteDispatch without the return of the credentials check: a variant
\* the reply properties must tell from the code
ExecuteDispatchNoReturn(e, subcommand) ==
    IF subcommand = "analyze" THEN "handleAnalyze"
    ELSE IF subcommand = "compare" THEN "handleCompare"
    ELSE "finally"

\* ExecuteDispatch with the return of the credentials check leaving
\* execute at once, as it would were the cleanup scheduled after the try
\* statement and not in its finally block: a variant the cleanup
\* properties must tell from the code
ExecuteDispatchReturnLeaves(e, subcommand) ==
    IF CredentialsMissing(e) THEN "done"
    ELSE IF subcommand = "analyze" THEN "handleAnalyze"
    ELSE IF subcommand = "compare" THEN "handleCompare"
    ELSE "finally"

\* where the try block goes: out by the return of the credentials check,
\* or into the handler of the subcommand, if it has one
ExecuteDispatch(e, subcommand) ==
    IF CredentialsMissing(e) THEN "finally"
    ELSE IF subcommand = "analyze" THEN "handleAnalyze"
    ELSE IF subcommand = "compare" THEN "handleCompare"
    ELSE "finally"

\* the try block up to the call of a handler
ExecuteTry ==
    /\ pc = "deferred"
    /\ IF CredentialsMissing(env)
       THEN replies' = Append(replies, Reply("AWS Configuration Error"))
       ELSE replies' = replies
    /\ pc' = ExecuteDispatch(env, interaction.subcommand)
    /\ tempDir' = TempDirAfterTry(env, tempDir)
    /\ UNCHANGED << inputVars, unitVars, deferred, caught, handleErrorCalls, timers,
                    downloads, acquired, compareVars, reports, runVars, calls >>

\* the catch block: handleError
ExecuteCatch ==
    /\ pc = "catch"
    /\ handleErrorCalls' = handleErrorCalls + 1
    /\ replies' = Append(replies, handleErrorReply(caught[1]))
    /\ pc' = "finally"
    /\ UNCHANGED << inputVars, unitVars, tempDir, deferred, caught, timers,
                    downloads, acquired, compareVars, reports, runVars, calls >>

\* the finally block: setTimeout(() => cleanupTempFiles(), 10000)
ExecuteFinally ==
    /\ pc = "finally"
    /\ timers' = timers + 1
    /\ pc' = "done"
    /\ UNCHANGED << inputVars, unitVars, tempDir, deferred, replies, caught, handleErrorCalls,
                    downloads, acquired, compareVars, reports, runVars, calls >>

(***************************************************************************)
(* createAnalysisEmbed.  The results object is passed by reference; the    *)
(* labels field and the emotion line are computed with Array.prototype     *)
(* .sort, which sorts the array it is called on, in place and stably.      *)
(* The other fields go through filter and slice, which copy.               *)
(***************************************************************************)
\* x put into a list sorted by descending Confidence, after its equals
RECURSIVE InsertByConfidence(_, _)
InsertByConfidence(sorted, x) ==
    IF sorted = <<>> THEN << x >>
    ELSE IF Head(sorted).Confidence >= x.Confidence
    THEN << Head(sorted) >> \o InsertByConfidence(Tail(sorted), x)
    ELSE << x >> \o sorted

\* array.sort((a, b) => b.Confidence - a.Confidence)
RECURSIVE SortByConfidence(_)
SortByConfidence(array) ==
    IF array = <<>> THEN <<>>
    ELSE InsertByConfidence(SortByConfidence(SubSeq(array, 1, Len(array) - 1)),
                            array[Len(array)])

\* results.labels?.Labels and results.faces?.FaceDetails?.length > 0
HasLabels(object) == "labels" \in DOMAIN object /\ "Labels" \in DOMAIN object["labels"]
HasFaces(object) ==
    /\ "faces" \in DOMAIN object
    /\ "FaceDetails" \in DOMAIN object["faces"]
    /\ Len(object["faces"].FaceDetails) > 0

\* results.<feature>?.<list>?.length > 0
HasItems(object, feature, list) ==
    /\ feature \in DOMAIN object
    /\ list \in DOMAIN object[feature]
    /\ Len(object[feature][list]) > 0

\* the face shown, after face.Emotions.sort(...) when it has emotions
FaceAfterEmbed(face) ==
    IF "Emotions" \in DOMAIN face /\ Len(face.Emotions) > 0
    THEN [face EXCEPT !.Emotions = SortByConfidence(face.Emotions)] ELSE face

\* the results object once createAnalysisEmbed has run on it
ResultsAfterEmbed(object) ==
    [ f \in DOMAIN object |->
        IF f = "labels" /\ HasLabels(object)
        THEN [object[f] EXCEPT !.Labels = SortByConfidence(@)]
        ELSE IF f = "faces" /\ HasFaces(object)
        THEN [object[f] EXCEPT !.FaceDetails = << FaceAfterEmbed(Head(@)) >> \o Tail(@)]
        ELSE object[f] ]

\* the numbers of items the fields of the embed list
LabelLimit == 8
TextLimit == 5
CelebrityLimit == 3
ModerationLimit == 5

\* array.slice(0, end)
Slice(array, end) == SubSeq(array, 1, IF Len(array) < end THEN Len(array) ELSE end)

\* TopLabels with .slice(0, 8) before .sort(...): a variant the embed
\* properties must tell from the code
TopLabelsSliceFirst(labels) == SortByConfidence(Slice(labels, LabelLimit))

\* Labels.sort((a, b) => b.Confidence - a.Confidence).slice(0, 8)
TopLabels(labels) == Slice(SortByConfidence(labels), LabelLimit)

\* TextDetections.filter(text => text.Type === 'LINE')
Lines(detections) == SelectSeq(detections, LAMBDA text : text.Type = "LINE")

\* array.join(separator) of an array of strings
RECURSIVE Join(_, _)
Join(array, separator) ==
    IF array = <<>> THEN <<>>
    ELSE IF Len(array) = 1 THEN array[1]
    ELSE array[1] \o separator \o Join(Tail(array), separator)

\* string.substring(0, end)
Substring(s, end) == SubSeq(s, 1, IF Len(s) < end THEN Len(s) ELSE end)

\* the number of characters substring keeps of the text lines
TextLength == 1020

\* the bullet (U+2022) and the space each line starts with
Bullet == << 8226, CharCode[" "] >>

\* the value of the text field: the first lines, each behind a bullet,
\* joined with '\\n' (a backslash and an n, as the source writes the
\* separator) and cut at 1020 code units, '\\n...' behind them when the
\* answer has more lines, and 'No text detected' when that is empty
TextField(detections) ==
    LET first == Slice(Lines(detections), TextLimit)
        textLines ==
            Substring(Join([i \in 1..Len(first) |-> Bullet \o first[i].DetectedText],
                           CodeUnits("\\n")),
                      TextLength)
                \o (IF Len(Lines(detections)) > TextLimit THEN CodeUnits("\\n...") ELSE <<>>)
    IN  IF textLines = <<>> THEN CodeUnits("No text detected") ELSE textLines

\* faceInfo for the face shown: its gender, its age range and its emotion
\* of highest confidence, each when the face has it
FaceInfo(face) ==
    (IF "Gender" \in DOMAIN face THEN << << "Gender", face.Gender.Value >> >> ELSE <<>>)
    \o (IF "AgeRange" \in DOMAIN face
        THEN << << "Age", face.AgeRange.Low, face.AgeRange.High >> >> ELSE <<>>)
    \o (IF "Emotions" \in DOMAIN face /\ Len(face.Emotions) > 0
        THEN << << "Emotion", Head(SortByConfidence(face.Emotions)).Type >> >> ELSE <<>>)

\* one field of the embed, when its test on the results holds
FieldIf(test, name, value) == IF test THEN name :> value ELSE <<>>

\* the fields createAnalysisEmbed adds: the text field with its value, the
\* other fields with the items they list (before their formatting as text)
EmbedFields(object) ==
    FieldIf(HasLabels(object), "labels",
            IF HasLabels(object) THEN TopLabels(object["labels"].Labels) ELSE <<>>)
    @@ FieldIf("text" \in DOMAIN object /\ "TextDetections" \in DOMAIN object["text"], "text",
            IF "text" \in DOMAIN object /\ "TextDetections" \in DOMAIN object["text"]
            THEN TextField(object["text"].TextDetections) ELSE <<>>)
    @@ FieldIf(HasFaces(object), "faces",
            IF HasFaces(object)
            THEN [count |-> Len(object["faces"].FaceDetails),
                  info |-> FaceInfo(Head(object["faces"].FaceDetails))]
            ELSE <<>>)
    @@ FieldIf(HasItems(object, "celebrities", "CelebrityFaces"), "celebrities",
            IF HasItems(object, "celebrities", "CelebrityFaces")
            THEN Slice(object["celebrities"].CelebrityFaces, CelebrityLimit) ELSE <<>>)
    @@ FieldIf(HasItems(object, "moderation", "ModerationLabels"), "moderation",
            IF HasItems(object, "moderation", "ModerationLabels")
            THEN Slice(object["moderation"].ModerationLabels, ModerationLimit) ELSE <<>>)

(***************************************************************************)
(* handleAnalyze.                                                          *)
(***************************************************************************)
\* the validation and the image processing up to the download
HandleAnalyzeStart ==
    LET imageUrl == interaction.url
        uploadedImage == interaction.image
        check == ProcessCheck(uploadedImage, imageUrl)
    IN  /\ pc = "handleAnalyze"
        /\ IF imageUrl = "" /\ uploadedImage = <<>>
           THEN /\ replies' = Append(replies, Reply("Input Required"))
                /\ pc' = "finally"
                /\ caught' = caught
           ELSE IF check.throws
           THEN /\ caught' = <<check.error>>
                /\ pc' = "catch"
                /\ replies' = replies
           ELSE /\ pc' = "analyzeDownload"
                /\ UNCHANGED << replies, caught >>
        /\ UNCHANGED << inputVars, unitVars, tempDir, deferred, handleErrorCalls, timers,
                        downloads, acquired, compareVars, reports, runVars, calls >>

\* the download returns: the rest of the image processing, the features,
\* the progress reply, and the call of runAnalyses
HandleAnalyzeDownloaded ==
    /\ pc = "analyzeDownload"
    /\ \E response \in DownloadOutcomes :
        LET result == ProcessResult(interaction.image, response)
        IN  /\ downloads' = [downloads EXCEPT !["image"] = <<response>>]
            /\ IF result.throws
               THEN /\ caught' = <<result.error>>
                    /\ pc' = "catch"
                    /\ UNCHANGED << acquired, replies, features, ra_pc >>
               ELSE /\ acquired' = acquired \cup {"image"}
                    /\ features' = AnalysisFeatures(interaction.features)
                    /\ replies' = Append(replies, Reply("Analyzing Image"))
                    /\ ra_pc' = "called"
                    /\ pc' = "analyzing"
                    /\ caught' = caught
    /\ UNCHANGED << inputVars, unitVars, tempDir, deferred, handleErrorCalls, timers,
                    compareVars, reports, promises, remote, results, writes,
                    resultKeys, calls >>

\* runAnalyses is back: createAnalysisReport writes the report, and
\* handleAnalyze awaits the promise it returns
HandleAnalyzeReport ==
    LET sourceDescription == Description(interaction.image, interaction.url, "")
    IN  /\ pc = "analyzing"
        /\ ra_pc \in {"returned", "thrown"}
        /\ IF ra_pc = "returned"
           THEN /\ reports' = Append(reports, createAnalysisReport(results, sourceDescription))
                /\ pc' = "analyzeReported"
                /\ caught' = caught
           ELSE /\ caught' = <<JoinError>>
                /\ pc' = "catch"
                /\ reports' = reports
        /\ UNCHANGED << inputVars, unitVars, tempDir, deferred, replies,
                        handleErrorCalls, timers, downloads, acquired, compareVars,
                        runVars, calls >>

\* the await of the report is over: the embed, which sorts the results in
\* place, and the final reply
HandleAnalyzeFinish ==
    /\ pc = "analyzeReported"
    /\ results' = ResultsAfterEmbed(results)
    /\ embed' = EmbedFields(results)
    /\ replies' = Append(replies,
            [Reply("Analysis Complete!") EXCEPT
                !.files = <<"analysis_report.json", "image">>])
    /\ pc' = "finally"
    /\ UNCHANGED << inputVars, reportVars, tempVars, resultsAtReturn, tempDir, deferred,
                    caught, handleErrorCalls, timers, downloads, acquired, compareVars,
                    reports, features, ra_pc, promises, remote, writes, resultKeys, calls >>

(***************************************************************************)
(* handleCompare.                                                          *)
(***************************************************************************)
\* compareFacesAwait turning a failure into an error record, as the
\* callbacks of runAnalyses do: a variant the comparison properties must tell
\* from the code
compareFacesSwallow(outcome) ==
    IF outcome.ok
    THEN [error |-> NoError, throws |-> FALSE, value |-> outcome.data]
    ELSE [error |-> NoError, throws |-> FALSE, value |-> NoData]

\* return await rekognitionClient.send(command), in compareFaces
compareFacesAwait(outcome) ==
    IF outcome.ok
    THEN [error |-> NoError, throws |-> FALSE, value |-> outcome.data]
    ELSE [error |-> outcome.error, throws |-> TRUE, value |-> NoData]

\* the catch block of handleCompare, for an error thrown in its try block
CompareCatch(error) ==
    IF isNoFaceError(error)
    THEN /\ replies' = Append(replies, Reply("No Faces Detected"))
         /\ pc' = "finally"
         /\ caught' = caught
    ELSE /\ caught' = <<error>>
         /\ pc' = "catch"
         /\ replies' = replies

\* the validation and the first progress reply
HandleCompareStart ==
    /\ pc = "handleCompare"
    /\ IF interaction.source_url = "" /\ interaction.source_image = <<>>
       THEN /\ replies' = Append(replies, Reply("Source Image Required"))
            /\ pc' = "finally"
       ELSE IF interaction.target_url = "" /\ interaction.target_image = <<>>
       THEN /\ replies' = Append(replies, Reply("Target Image Required"))
            /\ pc' = "finally"
       ELSE /\ replies' = Append(replies, Reply("Preparing Face Comparison"))
            /\ pc' = "compareSource"
    /\ UNCHANGED << inputVars, unitVars, tempDir, deferred, caught, handleErrorCalls, timers,
                    downloads, acquired, compareVars, reports, runVars, calls >>

\* the source image up to its download
CompareProcessSource ==
    LET check == ProcessCheck(interaction.source_image, interaction.source_url)
    IN  /\ pc = "compareSource"
        /\ IF check.throws
           THEN CompareCatch(check.error)
           ELSE /\ pc' = "compareSourceDownload"
                /\ UNCHANGED << replies, caught >>
        /\ UNCHANGED << inputVars, unitVars, tempDir, deferred, handleErrorCalls, timers,
                        downloads, acquired, compareVars, reports, runVars, calls >>

\* the source download returns; the target image up to its download
CompareSourceDownloaded ==
    /\ pc = "compareSourceDownload"
    /\ \E response \in DownloadOutcomes :
        LET result == ProcessResult(interaction.source_image, response)
            check == ProcessCheck(interaction.target_image, interaction.target_url)
        IN  /\ downloads' = [downloads EXCEPT !["source"] = <<response>>]
            /\ IF result.throws
               THEN /\ CompareCatch(result.error)
                    /\ acquired' = acquired
               ELSE /\ acquired' = acquired \cup {"source"}
                    /\ IF check.throws
                       THEN CompareCatch(check.error)
                       ELSE /\ pc' = "compareTargetDownload"
                            /\ UNCHANGED << replies, caught >>
    /\ UNCHANGED << inputVars, unitVars, tempDir, deferred, handleErrorCalls, timers,
                    compareVars, reports, runVars, calls >>

\* the target download returns; the second progress reply
CompareTargetDownloaded ==
    /\ pc = "compareTargetDownload"
    /\ \E response \in DownloadOutcomes :
        LET result == ProcessResult(interaction.target_image, response)
        IN  /\ downloads' = [downloads EXCEPT !["target"] = <<response>>]
            /\ IF result.throws
               THEN /\ CompareCatch(result.error)
                    /\ acquired' = acquired
               ELSE /\ acquired' = acquired \cup {"target"}
                    /\ replies' = Append(replies, Reply("Comparing Faces"))
                    /\ pc' = "compareCall"
                    /\ caught' = caught
    /\ UNCHANGED << inputVars, unitVars, tempDir, deferred, handleErrorCalls, timers,
                    compareVars, reports, runVars, calls >>

\* compareFaces(source, target, similarityThreshold / 100) sends its command
CompareFacesCall ==
    LET similarityThreshold == SimilarityThreshold(interaction.similarity)
        argument == ThresholdArgument(similarityThreshold)
    IN  /\ pc = "compareCall"
        /\ threshold' = <<argument>>
        /\ sent' = <<CompareFacesCommand(argument)>>
        /\ calls' = [calls EXCEPT !["compareFaces"] = @ + 1]
        /\ pc' = "comparing"
        /\ UNCHANGED << inputVars, unitVars, tempDir, deferred, replies, caught, handleErrorCalls, timers,
                        downloads, acquired, cmpOutcome, reports, runVars >>

\* the remote comparison settles: createComparisonReport writes the report
\* and handleCompare awaits the promise it returns, or the catch block runs
CompareSettle(outcome) ==
    LET got == compareFacesAwait(outcome)
        sourceDesc == Description(interaction.source_image, interaction.source_url, "source")
        targetDesc == Description(interaction.target_image, interaction.target_url, "target")
    IN  /\ pc = "comparing"
        /\ cmpOutcome' = <<outcome>>
        /\ IF got.throws
           THEN /\ CompareCatch(got.error)
                /\ reports' = reports
           ELSE /\ reports' = Append(reports,
                        createComparisonReport(got.value, sourceDesc, targetDesc))
                /\ pc' = "compareReported"
                /\ UNCHANGED << replies, caught >>
        /\ UNCHANGED << inputVars, unitVars, tempDir, deferred, handleErrorCalls, timers,
                        downloads, acquired, threshold, sent, runVars, calls >>

CompareFacesSucceed == \E data \in Payloads : CompareSettle(Succeeded(data))

CompareFacesFail == \E err \in RemoteErrors : CompareSettle(Failed(err))

\* the await of the report is over: the embed and the final reply
HandleCompareFinish ==
    /\ pc = "compareReported"
    /\ replies' = Append(replies,
            [Reply("Face Comparison Complete!") EXCEPT
                !.files = <<"comparison_report.json", "source", "target">>])
    /\ pc' = "finally"
    /\ UNCHANGED << inputVars, unitVars, tempDir, deferred, caught, handleErrorCalls,
                    timers, downloads, acquired, compareVars, reports, runVars, calls >>

(***************************************************************************)
(* The specifications.                                                     *)
(***************************************************************************)
NextCompare ==
    \/ InteractionCreate
    \/ DeferReply
    \/ ExecuteTry
    \/ ExecuteCatch
    \/ ExecuteFinally
    \/ HandleCompareStart
    \/ CompareProcessSource
    \/ CompareSourceDownloaded
    \/ CompareTargetDownloaded
    \/ CompareFacesCall
    \/ CompareFacesSucceed
    \/ CompareFacesFail
    \/ HandleCompareFinish

Next ==
    \/ NextCompare
    \/ HandleAnalyzeStart
    \/ HandleAnalyzeDownloaded
    \/ NextRun
    \/ HandleAnalyzeReport
    \/ HandleAnalyzeFinish

\* the whole program on one interaction
Spec == Init /\ [][Next]_vars

\* the compare command with uploaded images, on every similarity option
InitThreshold ==
    /\ interaction \in
         { [NoOptions EXCEPT
                !.subcommand = "compare",
                !.source_image = <<[contentType |-> "image/png", name |-> "photo.png"]>>,
                !.target_image = <<[contentType |-> "image/png", name |-> "photo.png"]>>,
                !.similarity = p] : p \in SimilarityRange }
    /\ env = [AWS_ACCESS_KEY_ID |-> "AKIA", AWS_SECRET_ACCESS_KEY |-> "secret"]
    /\ tempDir = "present"
    /\ pc = "event"
    /\ features = {}
    /\ ra_pc = "idle"
    /\ InitCommon

SpecThreshold == InitThreshold /\ [][NextCompare]_vars

(***************************************************************************)
(* Properties of runAnalyses, checked under SpecRun.                       *)
(***************************************************************************)
FailedFeatures == {f \in Features : remote[f] # <<>> /\ ~remote[f][1].ok}
SucceededFeatures == {f \in Features : remote[f] # <<>> /\ remote[f][1].ok}

\* C1: runAnalyses never throws, whichever calls fail, and the mapping it
\* returns holds, for every requested feature, the remote payload when its
\* call succeeded and the record { error: message } when its call failed.
C1_FailureIsolation ==
    /\ ra_pc # "thrown"
    /\ ra_pc = "returned" =>
         \A f \in features :
            /\ remote[f] # <<>>
            /\ f \in DOMAIN results
            /\ results[f] = IF remote[f][1].ok THEN remote[f][1].data
                            ELSE [error |-> remote[f][1].error.message]

\* runAnalyses has returned with one call failed and another succeeded
C1_Witness ==
    /\ ra_pc = "returned"
    /\ FailedFeatures # {}
    /\ SucceededFeatures # {}

\* C2: the mapping runAnalyses returns has exactly the requested features
\* as its keys.
C2_ExactKeys == ra_pc = "returned" => DOMAIN results = features

\* runAnalyses has returned for the request {text, faces}, text failed
C2_Witness ==
    /\ ra_pc = "returned"
    /\ features = {"text", "faces"}
    /\ FailedFeatures = {"text"}

\* C3: runAnalyses returns only when every call it issued has settled.
C3_FullJoin ==
    ra_pc = "returned" =>
        \A f \in Features : calls[f] > 0 => remote[f] # <<>> /\ promises[f] # "pending"

\* runAnalyses has returned for all five features, some of them failed
C3_Witness ==
    /\ ra_pc = "returned"
    /\ features = Features
    /\ Cardinality(FailedFeatures) >= 2
    /\ Cardinality(SucceededFeatures) >= 2

\* C4: a feature's remote call is issued at most once, never for a feature
\* that was not requested, and once runAnalyses waits every requested
\* feature's call has been issued exactly once, failed calls included.
C4_OneCallEach ==
    \A f \in Features :
        /\ calls[f] <= 1
        /\ f \notin features => calls[f] = 0
        /\ ra_pc \in {"awaiting", "returned", "thrown"} =>
                calls[f] = IF f \in features THEN 1 ELSE 0

\* runAnalyses waits: labels has failed, celebrities is still pending, and
\* each has been called once
C4_Witness ==
    /\ ra_pc = "awaiting"
    /\ features = {"labels", "celebrities"}
    /\ FailedFeatures = {"labels"}
    /\ promises["celebrities"] = "pending"
    /\ calls["labels"] = 1
    /\ calls["celebrities"] = 1

(***************************************************************************)
(* The similarity threshold, checked under SpecThreshold.                  *)
(***************************************************************************)
\* C5: for every similarity percentage p the user supplies, compareFaces is
\* handed p / 100 and the command sent carries SimilarityThreshold p again.
C5_ThresholdRoundTrip ==
    (sent # <<>> /\ interaction.similarity # <<>>) =>
        LET p == interaction.similarity[1]
        IN  /\ threshold[1] = DblDiv(p, 100)
            /\ sent[1].SimilarityThreshold = p

(***************************************************************************)
(* Properties of the whole program, checked under Spec.                    *)
(***************************************************************************)
Contents == {replies[i].content : i \in DOMAIN replies}

LastReply == replies[Len(replies)]

\* the replies handleError sends
ErrorContents ==
    { "Invalid Image Format", "Image Too Large", "Access Denied", "Error:",
      "An error occurred while processing your request." }

ComparisonReports == {i \in DOMAIN reports : reports[i].analysisType = "face_comparison"}

\* C6: when the remote comparison fails with an InvalidParameterException
\* saying that there are no faces in the image, the request is answered
\* with 'No Faces Detected': handleError is not called and none of its
\* messages is sent.
C6_NoFaceClassified ==
    cmpOutcome = <<Failed(NoFaceError)>> =>
        /\ LastReply.content = "No Faces Detected"
        /\ Contents \cap ErrorContents = {}
        /\ handleErrorCalls = 0
        /\ caught = <<>>
        /\ pc \in {"finally", "done"}

\* the request is over and the remote comparison failed for want of a face
C6_Witness ==
    /\ pc = "done"
    /\ cmpOutcome = <<Failed(NoFaceError)>>
    /\ "No Faces Detected" \in Contents

\* C7: a comparison issues one remote call; when that call fails no
\* comparison report is written and no 'Face Comparison Complete!' reply is
\* sent, and when that reply is sent the call succeeded and the one report
\* written holds the remote result.
C7_ComparisonAtomic ==
    /\ calls["compareFaces"] <= 1
    /\ (cmpOutcome # <<>> /\ ~cmpOutcome[1].ok) =>
            /\ ComparisonReports = {}
            /\ "Face Comparison Complete!" \notin Contents
    /\ "Face Comparison Complete!" \in Contents =>
            /\ calls["compareFaces"] = 1
            /\ cmpOutcome # <<>> /\ cmpOutcome[1].ok
            /\ Len(reports) = 1
            /\ reports[1].analysisType = "face_comparison"
            /\ reports[1].results = cmpOutcome[1].data

\* the request is over, its one remote comparison was refused
C7_Witness ==
    /\ pc = "done"
    /\ calls["compareFaces"] = 1
    /\ cmpOutcome # <<>>
    /\ ~cmpOutcome[1].ok
    /\ cmpOutcome[1].error.code = "AccessDeniedException"
    /\ LastReply.content = "Access Denied"

\* C8: every request that has ended, whatever made it fail, was answered
\* with a reply.
C8_EveryRequestAnswered == pc \in {"done", "unknown"} => replies # <<>>

\* C9: when the image was acquired and some feature failed remotely, the
\* analysis ends with the 'Analysis Complete!' reply with the report
\* attached, the report holds the failure record of every failed feature,
\* and handleError is not called.
C9_PartialFailureNotFatal ==
    ( /\ interaction.subcommand = "analyze"
      /\ "image" \in acquired
      /\ FailedFeatures # {}
      /\ pc \in {"catch", "finally", "done"} ) =>
        /\ pc # "catch"
        /\ handleErrorCalls = 0
        /\ caught = <<>>
        /\ LastReply.content = "Analysis Complete!"
        /\ LastReply.files[1] = "analysis_report.json"
        /\ Len(reports) = 1
        /\ \A f \in FailedFeatures :
              /\ f \in DOMAIN reports[1].results
              /\ reports[1].results[f] = [error |-> remote[f][1].error.message]

\* the analysis of all five features is over, celebrities failed, the rest
\* succeeded
C9_Witness ==
    /\ pc = "done"
    /\ features = Features
    /\ FailedFeatures = {"celebrities"}
    /\ LastReply.content = "Analysis Complete!"

\* what the user supplied for an image role
UploadedFor(role) ==
    IF role = "image" THEN interaction.image
    ELSE IF role = "source" THEN interaction.source_image
    ELSE interaction.target_image

UrlFor(role) ==
    IF role = "image" THEN interaction.url
    ELSE IF role = "source" THEN interaction.source_url
    ELSE interaction.target_url

\* the image of a role was supplied and acquired: an uploaded file of an
\* image type whose download succeeded, or else one of the three http and
\* https URLs of Urls whose download succeeded with an image content type
ImageAcquired(role) ==
    /\ downloads[role] # <<>>
    /\ downloads[role][1].ok
    /\ IF UploadedFor(role) # <<>>
       THEN UploadedFor(role)[1].contentType = "image/png"
       ELSE /\ UrlFor(role) \in { "HTTP://h/a.png", "https://%68/a.png",
                                  "https://bücher.example/a.png" }
            /\ downloads[role][1].contentType = "image/jpeg"

NeededRoles ==
    IF interaction.subcommand = "analyze" THEN {"image"}
    ELSE IF interaction.subcommand = "compare" THEN {"source", "target"}
    ELSE {}

\* C10: a remote vision call has been issued only if every image the
\* request needs was supplied and acquired.
C10_NoCallBeforeImages ==
    (\E o \in Operations : calls[o] > 0) => \A r \in NeededRoles : ImageAcquired(r)

\* a comparison is over with no remote call: its source image was
\* acquired from the URL whose host has a non-ASCII letter, and its target
\* URL, whose host is no valid Punycode, was refused as invalid before any
\* download
C10_Witness ==
    /\ pc = "done"
    /\ interaction.subcommand = "compare"
    /\ interaction.source_image = <<>>
    /\ interaction.source_url = "https://bücher.example/a.png"
    /\ ImageAcquired("source")
    /\ interaction.target_image = <<>>
    /\ interaction.target_url = "https://xn--a-9ca/a"
    /\ downloads["target"] = <<>>
    /\ LastReply.text
           = "Invalid URL. Please provide a valid image URL starting with http:// or https://"
    /\ \A o \in Operations : calls[o] = 0

(***************************************************************************)
(* Missing credentials, checked under Spec.                                *)
(***************************************************************************)
\* C11: when a credential is missing the request is answered with the
\* configuration error and nothing else is done for it: no download, no
\* temp directory created, no image or report file written, no remote call.
C11_NoWorkWithoutCredentials ==
    (CredentialsMissing(env) /\ pc \in {"finally", "done"}) =>
        /\ Len(replies) = 1
        /\ LastReply.content = "AWS Configuration Error"
        /\ tempDir # "created"
        /\ \A r \in Roles : downloads[r] = <<>>
        /\ acquired = {}
        /\ reports = <<>>
        /\ \A o \in Operations : calls[o] = 0

\* an analysis with an uploaded image was asked for, the secret key is
\* missing and no temp directory exists: the request is over
C11_Witness ==
    /\ pc = "done"
    /\ env.AWS_ACCESS_KEY_ID # ""
    /\ env.AWS_SECRET_ACCESS_KEY = ""
    /\ interaction.subcommand = "analyze"
    /\ interaction.image # <<>>
    /\ tempDir = "absent"

(***************************************************************************)
(* The report file.  fs.writeFileSync(reportPath, JSON.stringify(report,   *)
(* null, 2)) writes the document as JSON text; the text is kept as the     *)
(* sequence of its lexemes (the white space between them, which the parser *)
(* skips, is left out).  JSON.stringify writes a string member quoted and  *)
(* escaped, a number in decimal, and leaves out a member whose value is    *)
(* undefined.  A feature's success payload carries its number and may      *)
(* carry an optional member; a failure record carries the error message.   *)
(* JSON.stringify and JSON.parse read a string by its UTF-16 code units:   *)
(* the strings of the results, the lexemes of the text and the strings of  *)
(* the document parsed back are sequences of code units.                   *)
(***************************************************************************)
\* \u and the four lower-case hexadecimal digits of a code unit
UnicodeEscapeOf(unit) ==
    LET digits == CodeUnits("0123456789abcdef")
    IN  CodeUnits("\\u") \o << digits[(unit \div 4096) + 1], digits[((unit \div 256) % 16) + 1],
                               digits[((unit \div 16) % 16) + 1], digits[(unit % 16) + 1] >>

\* JSON.stringify's quoting of a code unit that is no half of a pair: the
\* quote and the backslash are written after a backslash, backspace, tab,
\* line feed, form feed and carriage return as the two-character escapes
\* \b, \t, \n, \f and \r, every other code unit below the space (32) and
\* every surrogate (55296 to 57343) as \u and its four digits, and every
\* other code unit (127 and the ones from 128 on included) as itself
EscapeChar(unit) ==
    IF unit = CharCode["\""] \/ unit = CharCode["\\"] THEN << CharCode["\\"], unit >>
    ELSE IF unit = 8 THEN CodeUnits("\\b")
    ELSE IF unit = 9 THEN CodeUnits("\\t")
    ELSE IF unit = 10 THEN CodeUnits("\\n")
    ELSE IF unit = 12 THEN CodeUnits("\\f")
    ELSE IF unit = 13 THEN CodeUnits("\\r")
    ELSE IF unit < 32 \/ unit \in 55296..57343
    THEN UnicodeEscapeOf(unit)
    ELSE << unit >>

\* JSON.stringify's quoting of a string: a lead surrogate (55296 to 56319)
\* followed by a trail surrogate (56320 to 57343) is one code point,
\* written as it is; every other code unit is quoted on its own
RECURSIVE Escape(_)
Escape(s) ==
    IF s = <<>> THEN <<>>
    ELSE IF Len(s) >= 2 /\ s[1] \in 55296..56319 /\ s[2] \in 56320..57343
    THEN << s[1], s[2] >> \o Escape(SubSeq(s, 3, Len(s)))
    ELSE EscapeChar(s[1]) \o Escape(SubSeq(s, 2, Len(s)))

\* the value of a hexadecimal digit of either case, -1 for another code unit
HexValue(unit) ==
    IF unit >= CharCode["0"] /\ unit <= CharCode["9"] THEN unit - CharCode["0"]
    ELSE IF unit >= CharCode["a"] /\ unit <= CharCode["f"] THEN unit - CharCode["a"] + 10
    ELSE IF unit >= CharCode["A"] /\ unit <= CharCode["F"] THEN unit - CharCode["A"] + 10
    ELSE 0 - 1

\* JSON.parse's reading of the code unit after a backslash: \b, \t, \n, \f
\* and \r are the control characters, \" \\ and \/ the character itself
UnescapeChar(unit) ==
    IF unit = CharCode["b"] THEN 8
    ELSE IF unit = CharCode["t"] THEN 9
    ELSE IF unit = CharCode["n"] THEN 10
    ELSE IF unit = CharCode["f"] THEN 12
    ELSE IF unit = CharCode["r"] THEN 13
    ELSE unit

\* the code unit a \u escape names with its four hexadecimal digits
UnicodeEscape(digits) ==
    4096 * HexValue(digits[1]) + 256 * HexValue(digits[2])
        + 16 * HexValue(digits[3]) + HexValue(digits[4])

\* JSON.parse's reading of the inside of a string lexeme of a JSON text: a
\* \u escape stands for the code unit of its four digits, whatever the
\* code unit (a surrogate too), another escape for its character, and
\* every other code unit for itself
RECURSIVE Unescape(_)
Unescape(s) ==
    IF s = <<>> THEN <<>>
    ELSE IF s[1] = CharCode["\\"]
    THEN IF s[2] = CharCode["u"]
         THEN << UnicodeEscape(SubSeq(s, 3, 6)) >> \o Unescape(SubSeq(s, 7, Len(s)))
         ELSE << UnescapeChar(s[2]) >> \o Unescape(SubSeq(s, 3, Len(s)))
    ELSE << s[1] >> \o Unescape(SubSeq(s, 2, Len(s)))

\* a string as JSON.stringify writes it, and a string lexeme as JSON.parse
\* reads it
StringLexeme(s) == CodeUnits("\"") \o Escape(s) \o CodeUnits("\"")

LexemeString(lexeme) == Unescape(SubSeq(lexeme, 2, Len(lexeme) - 1))

\* MemberLexemes leaving out every falsy value, the empty string included:
\* a variant the report properties must tell from the code
MemberLexemesFalsy(key, value) ==
    IF key = "payload"
    THEN << StringLexeme(CodeUnits(key)), CodeUnits(":"), CodeUnits(ToString(value)) >>
    ELSE IF key = "error"
    THEN IF value = <<>> THEN <<>>
         ELSE << StringLexeme(CodeUnits(key)), CodeUnits(":"), StringLexeme(value) >>
    ELSE IF value = <<>> THEN <<>>
    ELSE << StringLexeme(CodeUnits(key)), CodeUnits(":"), StringLexeme(value[1]) >>

\* one member of a feature's result, as JSON.stringify writes it: the
\* number of a payload, the message of a failure record, and an optional
\* member when it is not undefined
MemberLexemes(key, value) ==
    IF key = "payload"
    THEN << StringLexeme(CodeUnits(key)), CodeUnits(":"), CodeUnits(ToString(value)) >>
    ELSE IF key = "error"
    THEN << StringLexeme(CodeUnits(key)), CodeUnits(":"), StringLexeme(value) >>
    ELSE IF value = <<>> THEN <<>>
    ELSE << StringLexeme(CodeUnits(key)), CodeUnits(":"), StringLexeme(value[1]) >>

\* the members written, separated by commas
RECURSIVE JoinMembers(_)
JoinMembers(members) ==
    IF members = <<>> THEN <<>>
    ELSE LET rest == JoinMembers(Tail(members))
         IN  IF Head(members) = <<>> THEN rest
             ELSE IF rest = <<>> THEN Head(members)
             ELSE Head(members) \o << CodeUnits(",") >> \o rest

ObjectLexemes(members) == << CodeUnits("{") >> \o JoinMembers(members) \o << CodeUnits("}") >>

\* the order in which the members of a feature's result are written
MemberOrder == << "payload", "OrientationCorrection", "error" >>

\* the keys of an object among the keys of an order, in that order
OrderedKeys(order, object) == SelectSeq(order, LAMBDA k : k \in DOMAIN object)

StringifyResult(result) ==
    LET keys == OrderedKeys(MemberOrder, result)
    IN  ObjectLexemes([i \in 1..Len(keys) |-> MemberLexemes(keys[i], result[keys[i]])])

\* JSON.stringify writes the own keys of the results object in the order
\* they were added to it: ownKeys is that order
StringifyResults(ownKeys, object) ==
    LET keys == OrderedKeys(ownKeys, object)
    IN  ObjectLexemes([i \in 1..Len(keys) |->
            << StringLexeme(CodeUnits(keys[i])), CodeUnits(":") >>
                \o StringifyResult(object[keys[i]])])

\* one string member of the meta object
MetaLexemes(key, value) ==
    << StringLexeme(CodeUnits(key)), CodeUnits(":"), StringLexeme(CodeUnits(value)) >>

\* JSON.stringify of the analysis report { meta: { timestamp, source,
\* analysisType }, results }
StringifyReport(report, ownKeys) ==
    ObjectLexemes(<<
        << StringLexeme(CodeUnits("meta")), CodeUnits(":") >> \o ObjectLexemes(<<
            MetaLexemes("timestamp", "2024-01-01T00:00:00.000Z"),
            MetaLexemes("source", report.source),
            MetaLexemes("analysisType", report.analysisType) >>),
        << StringLexeme(CodeUnits("results")), CodeUnits(":") >>
            \o StringifyResults(ownKeys, report.results) >>)

ParseNumber(lexeme) == CHOOSE n \in 0..MaxPayload : CodeUnits(ToString(n)) = lexeme

\* JSON.parse: the value that starts at lexeme i and the index after it;
\* the keys of an object are the strings of their lexemes
RECURSIVE ParseValue(_, _), ParseMembers(_, _, _)
ParseValue(lexemes, i) ==
    IF lexemes[i] = CodeUnits("{")
    THEN IF lexemes[i + 1] = CodeUnits("}") THEN [value |-> <<>>, next |-> i + 2]
         ELSE ParseMembers(lexemes, i + 1, <<>>)
    ELSE IF Head(lexemes[i]) = CharCode["\""]
    THEN [value |-> LexemeString(lexemes[i]), next |-> i + 1]
    ELSE [value |-> ParseNumber(lexemes[i]), next |-> i + 1]

ParseMembers(lexemes, i, object) ==
    LET member == ParseValue(lexemes, i + 2)
        extended == (LexemeString(lexemes[i]) :> member.value) @@ object
    IN  IF lexemes[member.next] = CodeUnits(",")
        THEN ParseMembers(lexemes, member.next + 1, extended)
        ELSE [value |-> extended, next |-> member.next + 1]

JSONparse(lexemes) == ParseValue(lexemes, 1).value

\* the messages of the failure records (err.message of an Error, a
\* string): plain, empty, with quotes, with a
\* line feed and a tab, with the bell (7), the backspace (8) and the escape
\* character (27), with a letter above 127 (233) and a surrogate pair
\* (55357, 56832), and with a trail and a lead surrogate that pair with
\* nothing
ReportMessages ==
    { CodeUnits("Rate exceeded"), <<>>, CodeUnits("Invalid \"Bytes\" in request"),
      CodeUnits("line1\nline2\tend"),
      CodeUnits("bell") \o << 7, 8, 27 >> \o CodeUnits("[0m"),
      << 233, 55357, 56832 >>,
      << 56832, 55357, 98 >> }

\* the results runAnalyses can return for one feature: a payload, a payload
\* with an undefined member, or a failure record with one of the messages
ResultValues ==
    Payloads \cup { [payload |-> 1, OrientationCorrection |-> <<>>] }
             \cup { [error |-> m] : m \in ReportMessages }

\* the number of features of the analyses whose report is written
MaxReportKeys == 2

\* the orders in which up to MaxReportKeys features can have settled
KeyOrders ==
    { s \in UNION { [1..k -> Features] : k \in 0..MaxReportKeys } :
        \A i, j \in 1..Len(s) : s[i] = s[j] => i = j }

\* createAnalysisReport(results, sourceDescription, tempDir)
ReportWrite ==
    LET report == createAnalysisReport(results, "uploaded image (photo.png)")
    IN  /\ pc = "report"
        /\ reports' = Append(reports, report)
        /\ reportFile' = StringifyReport(report, resultKeys)
        /\ pc' = "written"
        /\ UNCHANGED << inputVars, tempDir, deferred, replies, caught, handleErrorCalls,
                        timers, downloads, acquired, compareVars, runVars, calls,
                        parsedReport, tempVars, embedVars >>

\* the report file read back: JSON.parse(fs.readFileSync(reportPath))
ReportRead ==
    /\ pc = "written"
    /\ parsedReport' = << JSONparse(reportFile) >>
    /\ pc' = "parsed"
    /\ UNCHANGED << inputVars, tempDir, deferred, replies, caught, handleErrorCalls,
                    timers, downloads, acquired, compareVars, runVars, calls,
                    reports, reportFile, tempVars, embedVars >>

NextReport == ReportWrite \/ ReportRead

\* createAnalysisReport called on its own with the results of any analysis
InitReport ==
    /\ interaction = NoOptions
    /\ env = [AWS_ACCESS_KEY_ID |-> "AKIA", AWS_SECRET_ACCESS_KEY |-> "secret"]
    /\ tempDir = "present"
    /\ pc = "report"
    /\ resultKeys \in KeyOrders
    /\ results \in [{resultKeys[i] : i \in 1..Len(resultKeys)} -> ResultValues]
    /\ features = DOMAIN results
    /\ ra_pc = "returned"
    /\ InitRest
    /\ InitTempIdle
    /\ InitEmbedIdle

SpecReport == InitReport /\ [][NextReport]_vars

\* a feature's result is a failure record when it has the key error
IsFailure(result) == "error" \in DOMAIN result

\* the same of a result of the document parsed back
IsFailureRead(result) == CodeUnits("error") \in DOMAIN result

\* C12: the report file parsed back has under results exactly the feature
\* keys of the results it was written from, and each of them is a failure
\* record exactly when it was one in those results.
C12_ReportRoundTrip ==
    parsedReport # <<>> =>
        LET parsed == parsedReport[1][CodeUnits("results")]
        IN  /\ DOMAIN parsed = {CodeUnits(f) : f \in DOMAIN results}
            /\ \A f \in DOMAIN results :
                   IsFailureRead(parsed[CodeUnits(f)]) <=> IsFailure(results[f])

\* a report was read back whose results held, faces settled before
\* labels, a failure whose message holds two surrogates that pair with
\* nothing and a payload with an undefined member: the failure is written
\* first, its surrogates as \ude00 and \ud83d, and its message is read
\* back as it was
C12_Witness ==
    /\ parsedReport # <<>>
    /\ resultKeys = << "faces", "labels" >>
    /\ results["labels"] = [payload |-> 1, OrientationCorrection |-> <<>>]
    /\ results["faces"] = [error |-> << 56832, 55357, 98 >>]
    /\ reportFile[21] = CodeUnits("\"faces\"")
    /\ reportFile[26] = CodeUnits("\"\\ude00\\ud83db\"")
    /\ parsedReport[1][CodeUnits("results")][CodeUnits("faces")][CodeUnits("error")]
           = << 56832, 55357, 98 >>
    /\ DOMAIN parsedReport[1][CodeUnits("results")][CodeUnits("labels")]
           = { CodeUnits("payload") }

(***************************************************************************)
(* The temp directory.  Every request writes its files into the one        *)
(* directory temp: the image it acquired and the report.  The finally      *)
(* block of execute schedules a cleanup pass ten seconds later; a pass     *)
(* deletes the files whose mtime is more than a minute old.  Time passes   *)
(* between the steps of a request (each of them follows an await); it      *)
(* advances in steps of TickMs, stopping on the way at the time a timer is *)
(* due, and a timer fires at its due time, after the steps that run at     *)
(* that time.  The file operations of a pass (readdirSync, statSync,       *)
(* unlinkSync) are taken to succeed.                                       *)
(***************************************************************************)
CleanupDelay == 10000
MaxAge == 60000

TickMs == 20000
MaxTime == 80000
MaxRequests == 2

Requests == 1..MaxRequests
Times == { t \in 0..MaxTime : t % TickMs = 0 }

\* attachment.name of an uploaded image
UploadNames == { "photo.png" }

\* the image URLs given: one whose path has an extension (with a space,
\* which the URL object holds percent-encoded) and one whose path has none
ImageUrls == { "https://h/a.p g", "https://h/a" }

\* an image a request is given: the prefix its handler passes, the
\* attachment option (the name of the uploaded file) and the url option
Uploaded(prefix, name) == [prefix |-> prefix, url |-> "", attachment |-> << name >>]
Linked(prefix, url) == [prefix |-> prefix, url |-> url, attachment |-> <<>>]

\* the images of a request: handleAnalyze processes one image with no
\* prefix, handleCompare the source and then the target
RequestImages ==
    { << Uploaded("", n) >> : n \in UploadNames }
        \cup { << Linked("", "https://h/a.p g") >> }
        \cup { << Uploaded("source", n), Uploaded("target", n) >> : n \in UploadNames }
        \cup { << Linked("source", "https://h/a"), Uploaded("target", n) >> :
                    n \in UploadNames }

\* interaction.options.getSubcommand() of a request
IsCompare(given) == Len(given) = 2

\* crypto.randomBytes(6).toString('hex') and crypto.randomBytes(4).toString('hex')
RandomHex6 == { "0a1b2c3d4e5f", "f5e4d3c2b1a0" }
RandomHex4 == { "0a1b2c3d", "f5e4d3c2" }

\* processUploadedImage: `${prefix ? prefix + '_' : ''}${attachment.name}`
UploadedFileName(prefix, name) ==
    (IF prefix # "" THEN prefix \o "_" ELSE "") \o name

\* processImageUrl: `${prefix ? prefix + '_' : ''}image_${randomId}${fileExtension}`
UrlFileName(prefix, randomId, fileExtension) ==
    (IF prefix # "" THEN prefix \o "_" ELSE "") \o "image_" \o randomId \o fileExtension

\* extension || '.jpg'
OrJpg(extension) == IF extension = "" THEN ".jpg" ELSE extension

\* path.extname(urlObj.pathname) || '.jpg'
FileExtension(url) == OrJpg(Extname(Pathname(url)))

\* the extension of each image URL given
FileExtensions == [u \in ImageUrls |-> FileExtension(u)]

\* the name of the file processUploadedImage or processImageUrl writes: the
\* handlers call the first when the attachment option is given
ImageFileName(given, randomId) ==
    IF given.attachment # <<>> THEN UploadedFileName(given.prefix, given.attachment[1])
    ELSE UrlFileName(given.prefix, randomId, FileExtensions[given.url])

\* createAnalysisReport: `analysis_${crypto.randomBytes(4).toString('hex')}.json`
AnalysisReportName(randomId) == "analysis_" \o randomId \o ".json"

\* createComparisonReport: `comparison_${crypto.randomBytes(4).toString('hex')}.json`
ComparisonReportName(randomId) == "comparison_" \o randomId \o ".json"

\* fs.writeFileSync(filePath, ...): the file is created or replaced, its
\* mtime is the time of the write
writeFileSync(dir, path, time) == (path :> time) @@ dir

\* cleanupTempFiles deleting at the threshold already: a variant the sweep
\* properties must tell from the code
cleanupTempFilesAtThreshold(dir, time) ==
    [ f \in { g \in DOMAIN dir : ~(time - dir[g] >= MaxAge) } |-> dir[f] ]

\* cleanupTempFiles: the directory after the pass run at the given time
cleanupTempFiles(dir, time) ==
    [ f \in { g \in DOMAIN dir : ~(time - dir[g] > MaxAge) } |-> dir[f] ]

nonTempVars == << inputVars, requestVars, runVars, calls, tempDir, reportVars, embedVars >>

\* a request arrives: deferReply
RequestStart(r) ==
    /\ stage[r] = "idle"
    /\ stage' = [stage EXCEPT ![r] = "started"]
    /\ UNCHANGED << nonTempVars, now, files, images, written, due, swept >>

\* processUploadedImage or processImageUrl writes the image: the one image
\* of handleAnalyze, or the source and then the target of handleCompare
ImageWrite(r) ==
    /\ stage[r] \in {"started", "target"}
    /\ LET given == images[r][IF stage[r] = "started" THEN 1 ELSE 2]
       IN  \E randomId \in RandomHex6 :
            /\ files' = writeFileSync(files, ImageFileName(given, randomId), now)
            /\ written' = [written EXCEPT ![r] = @ \cup {ImageFileName(given, randomId)}]
    /\ stage' = [stage EXCEPT ![r] = IF stage[r] = "started" /\ IsCompare(images[r])
                                     THEN "target" ELSE "analyzing"]
    /\ UNCHANGED << nonTempVars, now, images, due, swept >>

\* runAnalyses or compareFaces is back: createAnalysisReport or
\* createComparisonReport writes the report, and the handler awaits it
RequestReport(r) ==
    /\ stage[r] = "analyzing"
    /\ \E randomId \in RandomHex4 :
        LET fileName == IF IsCompare(images[r]) THEN ComparisonReportName(randomId)
                        ELSE AnalysisReportName(randomId)
        IN  /\ files' = writeFileSync(files, fileName, now)
            /\ written' = [written EXCEPT ![r] = @ \cup {fileName}]
    /\ stage' = [stage EXCEPT ![r] = "reported"]
    /\ UNCHANGED << nonTempVars, now, images, due, swept >>

\* the final reply is sent with the report and the images attached
RequestReply(r) ==
    /\ stage[r] = "reported"
    /\ stage' = [stage EXCEPT ![r] = "replied"]
    /\ UNCHANGED << nonTempVars, now, files, images, written, due, swept >>

\* the processing of an image or compareFaces throws: the catch block of
\* handleCompare or handleError replies
RequestThrow(r) ==
    /\ \/ stage[r] \in {"started", "target"}
       \/ stage[r] = "analyzing" /\ IsCompare(images[r])
    /\ stage' = [stage EXCEPT ![r] = "replied"]
    /\ UNCHANGED << nonTempVars, now, files, images, written, due, swept >>

\* finally: setTimeout(() => cleanupTempFiles(), 10000)
RequestFinally(r) ==
    /\ stage[r] = "replied"
    /\ now + CleanupDelay <= MaxTime
    /\ due' = [due EXCEPT ![r] = << now + CleanupDelay >>]
    /\ stage' = [stage EXCEPT ![r] = "done"]
    /\ UNCHANGED << nonTempVars, now, files, images, written, swept >>

\* the timer of request r fires: cleanupTempFiles()
CleanupPass(r) ==
    /\ due[r] # <<>>
    /\ due[r][1] <= now
    /\ files' = cleanupTempFiles(files, now)
    /\ swept' = << [after |-> cleanupTempFiles(files, now), at |-> now, before |-> files] >>
    /\ due' = [due EXCEPT ![r] = <<>>]
    /\ UNCHANGED << nonTempVars, now, stage, images, written >>

\* the time the clock reaches next: the first due time of a timer within
\* the tick, the end of the tick when there is none
NextTime(time, pending) ==
    IF {t \in pending : t < time + TickMs} = {} THEN time + TickMs
    ELSE CHOOSE t \in pending : \A other \in pending : t <= other

\* time passes, unless a timer is due
ClockTick ==
    /\ now + TickMs <= MaxTime
    /\ \A r \in Requests : IF due[r] = <<>> THEN TRUE ELSE due[r][1] > now
    /\ now' = NextTime(now, {due[r][1] : r \in {q \in Requests : due[q] # <<>>}})
    /\ UNCHANGED << nonTempVars, files, stage, images, written, due, swept >>

InitTempRest ==
    /\ interaction = NoOptions
    /\ env = [AWS_ACCESS_KEY_ID |-> "AKIA", AWS_SECRET_ACCESS_KEY |-> "secret"]
    /\ tempDir = "present"
    /\ pc = "temp"
    /\ features = {}
    /\ ra_pc = "idle"
    /\ results = <<>>
    /\ resultKeys = <<>>
    /\ InitRest
    /\ InitEmbedIdle

\* cleanupTempFiles on its own: a pass is scheduled over a directory that
\* holds files of any age
InitCleanup ==
    /\ now \in Times
    /\ files \in UNION { [ps -> { t \in Times : t <= now }] :
                            ps \in SUBSET { "photo.png", "analysis_0a1b2c3d.json" } }
    /\ stage = [r \in Requests |-> "done"]
    /\ images = [r \in Requests |-> <<>>]
    /\ written = [r \in Requests |-> {}]
    /\ due \in { [r \in Requests |-> IF r = 1 THEN << t >> ELSE <<>>] : t \in Times }
    /\ swept = <<>>
    /\ InitTempRest

NextCleanup ==
    \/ \E r \in Requests : CleanupPass(r)
    \/ ClockTick

SpecCleanup == InitCleanup /\ [][NextCleanup]_vars

\* requests arrive at an empty temp directory
InitTemp ==
    /\ now = 0
    /\ files = <<>>
    /\ stage = [r \in Requests |-> "idle"]
    /\ images \in [Requests -> RequestImages]
    /\ written = [r \in Requests |-> {}]
    /\ due = [r \in Requests |-> <<>>]
    /\ swept = <<>>
    /\ InitTempRest

\* the steps of a request once it has arrived
RequestStep(r) ==
    \/ ImageWrite(r)
    \/ RequestReport(r)
    \/ RequestReply(r)
    \/ RequestThrow(r)
    \/ RequestFinally(r)

NextTemp ==
    \/ \E r \in Requests : RequestStart(r)
    \/ \E r \in Requests : RequestStep(r)
    \/ \E r \in Requests : CleanupPass(r)
    \/ ClockTick

SpecTemp == InitTemp /\ [][NextTemp]_vars

\* one request and no later one; its steps, its timer and the clock go on
NextTempOne ==
    \/ RequestStart(1)
    \/ RequestStep(1)
    \/ CleanupPass(1)
    \/ ClockTick

SpecTempOne ==
    /\ InitTemp
    /\ [][NextTempOne]_vars
    /\ WF_vars(RequestStep(1))
    /\ WF_vars(CleanupPass(1))
    /\ WF_vars(ClockTick)

\* a request is in flight from its arrival to its final reply
InFlight(r) == stage[r] \in {"started", "target", "analyzing", "reported"}

(***************************************************************************)
(* Properties of the temp directory.                                       *)
(***************************************************************************)
\* C13: a cleanup pass removes every file whose age is above 60 seconds and
\* no other file: a file whose age is at or below 60 seconds, one written
\* just now among them, is still there after the pass, with its mtime.
C13_SweepByAge ==
    swept # <<>> =>
        LET pass == swept[1]
        IN  /\ DOMAIN pass.after \subseteq DOMAIN pass.before
            /\ \A f \in DOMAIN pass.before :
                /\ f \in DOMAIN pass.after <=> pass.at - pass.before[f] <= 60000
                /\ f \in DOMAIN pass.after => pass.after[f] = pass.before[f]

\* a pass has removed a file eighty seconds old and has left one written
\* at the time of the pass
C13_Witness ==
    /\ swept # <<>>
    /\ DOMAIN swept[1].before = {"photo.png", "analysis_0a1b2c3d.json"}
    /\ swept[1].at - swept[1].before["photo.png"] = 80000
    /\ swept[1].before["analysis_0a1b2c3d.json"] = swept[1].at
    /\ DOMAIN swept[1].after = {"analysis_0a1b2c3d.json"}

\* C14: once a request has finished, every temp file it wrote is
\* eventually deleted, also when no later request arrives.
C14_EventuallyDeleted ==
    \A r \in Requests :
        (stage[r] = "done") ~> (\A f \in written[r] : f \notin DOMAIN files)

\* C15: two requests in flight at the same time have written no path in
\* common.
C15_UniquePaths ==
    \A r1 \in Requests : \A r2 \in Requests :
        (r1 # r2 /\ InFlight(r1) /\ InFlight(r2)) => written[r1] \cap written[r2] = {}

\* C18: while a request is in flight, the temp files it has written are
\* still in the directory: no cleanup pass has deleted one.
C18_NoEarlyDeletion ==
    \A r \in Requests : InFlight(r) => written[r] \subseteq DOMAIN files

(***************************************************************************)
(* The features handed to runAnalyses.                                     *)
(***************************************************************************)
\* C16: runAnalyses is called with the five features when the features
\* option is 'all' or omitted, and with the one feature named otherwise.
C16_FeatureExpansion ==
    (pc = "analyzing" \/ ra_pc # "idle") =>
        features = IF interaction.features \in {"", "all"}
                   THEN {"labels", "text", "faces", "moderation", "celebrities"}
                   ELSE {interaction.features}

\* runAnalyses has returned for a request that named no features
C16_Witness ==
    /\ ra_pc = "returned"
    /\ interaction.subcommand = "analyze"
    /\ interaction.features = ""
    /\ Cardinality(features) = 5

\* C17: runAnalyses called with no feature fails instead of returning a
\* mapping, and it fails in no other case.
C17_EmptyIsMisuse ==
    /\ ra_pc = "returned" => features # {}
    /\ ra_pc = "thrown" => features = {}

(***************************************************************************)
(* createAnalysisReport and createAnalysisEmbed run on the results        *)
(* runAnalyses returned.                                                   *)
(***************************************************************************)
\* what the remote service answers: labels and emotions in any order
LabelValues == { [Confidence |-> c, Name |-> n] : c \in {80, 95}, n \in {"Dog", "Tree"} }
EmotionValues == { [Confidence |-> c, Type |-> t] : c \in {60, 90}, t \in {"HAPPY"} }

MaxLabels == 3
MaxEmotions == 2

SequencesUpTo(values, n) == UNION { [1..k -> values] : k \in 0..n }

LabelResults ==
    { [Labels |-> l] : l \in SequencesUpTo(LabelValues, MaxLabels) }
        \cup { [error |-> "Rate exceeded"] }

FaceResults ==
    { [FaceDetails |-> << [Emotions |-> e] >>] : e \in SequencesUpTo(EmotionValues, MaxEmotions) }
        \cup { [FaceDetails |-> <<>>] }

\* createAnalysisReport(results, sourceDescription, tempDir), line 184
EmbedReport ==
    /\ pc = "returnedResults"
    /\ reports' = Append(reports, createAnalysisReport(results, "uploaded image (photo.png)"))
    /\ pc' = "reported"
    /\ UNCHANGED << inputVars, tempDir, deferred, replies, caught, handleErrorCalls,
                    timers, downloads, acquired, compareVars, runVars, calls,
                    reportVars, tempVars, embedVars >>

\* createAnalysisEmbed(results, sourceDescription, imageAttachment), line 187
EmbedBuild ==
    /\ pc = "reported"
    /\ results' = ResultsAfterEmbed(results)
    /\ embed' = EmbedFields(results)
    /\ pc' = "embedded"
    /\ UNCHANGED << inputVars, tempDir, deferred, replies, caught, handleErrorCalls,
                    timers, downloads, acquired, compareVars, features, ra_pc, promises,
                    remote, writes, resultKeys, calls, reports, reportVars, tempVars,
                    resultsAtReturn >>

NextEmbed == EmbedReport \/ EmbedBuild

\* runAnalyses has returned the results of labels and faces
InitEmbed ==
    /\ interaction = NoOptions
    /\ env = [AWS_ACCESS_KEY_ID |-> "AKIA", AWS_SECRET_ACCESS_KEY |-> "secret"]
    /\ tempDir = "present"
    /\ pc = "returnedResults"
    /\ results \in { ("labels" :> l) @@ ("faces" :> f) : l \in LabelResults, f \in FaceResults }
    /\ resultsAtReturn = results
    /\ embed = <<>>
    /\ features = DOMAIN results
    /\ resultKeys = << "labels", "faces" >>
    /\ ra_pc = "returned"
    /\ InitRest
    /\ InitTempIdle

SpecEmbed == InitEmbed /\ [][NextEmbed]_vars

\* C19: after runAnalyses has returned, the results stay as it returned
\* them while the report and the embed are built, the order of the elements
\* of their lists included.
C19_ResultsNotMutated == results = resultsAtReturn

(***************************************************************************)
(* runAnalyses: the assignments to the slots of results.                   *)
(***************************************************************************)
\* C20: while runAnalyses runs and when it has returned, every slot of
\* results has been assigned at most once, by the task of its own feature
\* and never by both a .then and a .catch callback; the slot of a feature
\* that was not requested is never assigned, the slot of a requested
\* feature whose call has settled has been assigned exactly once, with a
\* payload from .then and a failure record from .catch, and at the return
\* every requested slot has been assigned exactly once.
C20_SlotWrittenOnce ==
    ra_pc \in {"awaiting", "returned"} =>
        \A k \in Features :
            /\ Len(writes[k]) <= 1
            /\ \A i \in 1..Len(writes[k]) : writes[k][i].by = k
            /\ Cardinality({ writes[k][i].callback : i \in 1..Len(writes[k]) }) <= 1
            /\ k \notin features => writes[k] = <<>>
            /\ (k \in features /\ remote[k] # <<>>) =>
                   /\ Len(writes[k]) = 1
                   /\ k \in DOMAIN results
                   /\ writes[k][1].callback = (IF remote[k][1].ok THEN "then" ELSE "catch")
            /\ (k \in features /\ remote[k] = <<>>) => writes[k] = <<>>
            /\ (ra_pc = "returned" /\ k \in features) => Len(writes[k]) = 1

\* runAnalyses has returned with a slot assigned by .then and a slot
\* assigned by .catch, each once
C20_Witness ==
    /\ ra_pc = "returned"
    /\ features = {"labels", "faces"}
    /\ writes["labels"] = << [key |-> "labels", by |-> "labels", callback |-> "then"] >>
    /\ writes["faces"] = << [key |-> "faces", by |-> "faces", callback |-> "catch"] >>
    /\ writes["text"] = <<>>

(***************************************************************************)
(* runAnalyses: the order in which the remote calls settle.  NextRun lets  *)
(* any pending call settle next, so the states of SpecRun are those of     *)
(* every interleaving of the completions.                                  *)
(***************************************************************************)
\* C21: in every order of completion, the entry a feature has in results
\* is fixed by the outcome of that feature's own call: at every moment
\* results holds exactly the features whose calls have settled, each with
\* its payload or its failure record, whatever other calls settled before
\* or after it; so the mapping returned is the same for every order.
C21_OrderIndependent ==
    ra_pc \in {"awaiting", "returned"} =>
        /\ DOMAIN results = {f \in features : remote[f] # <<>>}
        /\ \A f \in DOMAIN results :
              results[f] = IF remote[f][1].ok THEN remote[f][1].data
                           ELSE [error |-> remote[f][1].error.message]

\* faces (failed) and celebrities have settled while labels, dispatched
\* before both, is still pending: completion out of the order of dispatch
C21_Witness ==
    /\ ra_pc = "awaiting"
    /\ features = {"labels", "faces", "celebrities"}
    /\ promises["labels"] = "pending"
    /\ remote["faces"] # <<>>
    /\ remote["celebrities"] # <<>>
    /\ ~remote["faces"][1].ok
    /\ remote["celebrities"][1].ok
    /\ DOMAIN results = {"faces", "celebrities"}

(***************************************************************************)
(* handleError.                                                            *)
(***************************************************************************)
\* C22: once handleError has run for the error caught, the last reply is
\* the specific message of the error's code when the code is
\* InvalidImageFormatException, ImageTooLargeException or
\* AccessDeniedException, whatever message the error carries; for any
\* other code it is 'Error:' followed by the error's own message when the
\* error has one, and the fixed generic text only when it has none.
C22_ErrorReply ==
    handleErrorCalls > 0 =>
        LET error == caught[1]
            specific == error.code \in {"InvalidImageFormatException",
                                        "ImageTooLargeException",
                                        "AccessDeniedException"}
        IN  /\ error.code = "InvalidImageFormatException" =>
                    LastReply = Reply("Invalid Image Format")
            /\ error.code = "ImageTooLargeException" =>
                    LastReply = Reply("Image Too Large")
            /\ error.code = "AccessDeniedException" =>
                    LastReply = Reply("Access Denied")
            /\ (~specific /\ error.message # "") =>
                    /\ LastReply.content = "Error:"
                    /\ LastReply.text = error.message
            /\ LastReply.content = "An error occurred while processing your request."
                    <=> (~specific /\ error.message = "")

\* handleError has answered an AccessDeniedException that carries a message
\* with the specific text
C22_Witness ==
    /\ handleErrorCalls > 0
    /\ caught[1].code = "AccessDeniedException"
    /\ caught[1].message # ""
    /\ LastReply = Reply("Access Denied")

(***************************************************************************)
(* createAnalysisEmbed on answers longer than the embed's limits.          *)
(***************************************************************************)
MaxItems == 10
MaxStride == 3
MaxCelebrities == 5
MaxFaces == 2
MaxTextLength == 300

\* n labels of distinct names; the stride sets the order of their
\* confidences and the divisor makes some of them equal
LabelList(n, stride, divisor) ==
    [i \in 1..n |-> [Confidence |-> 70 + (((i * stride) % 11) \div divisor),
                     Name |-> "L" \o ToString(i)]]

\* a string of n letters
Letters(n) == [i \in 1..n |-> CharCode["x"]]

\* the texts detected: short ones, and ones of MaxTextLength letters more
TextFillers == [width \in {0, MaxTextLength} |-> Letters(width)]

\* n text detections, every period-th one a word and the others lines
\* (period 0: lines only), each text with width letters behind its number
TextList(n, period, width) ==
    [i \in 1..n |-> [Type |-> IF period > 0 /\ i % period = 0 THEN "WORD" ELSE "LINE",
                     DetectedText |-> CodeUnits("t" \o ToString(i)) \o TextFillers[width]]]

CelebrityList(n) ==
    [i \in 1..n |-> [Name |-> "C" \o ToString(i), MatchConfidence |-> 90 + (i % 3)]]

\* n faces, each with its own gender value and emotion types
FaceList(n) ==
    [j \in 1..n |->
        [Emotions |-> << [Confidence |-> 60, Type |-> "CALM" \o ToString(j)],
                         [Confidence |-> 90, Type |-> "HAPPY" \o ToString(j)] >>,
         Gender |-> [Confidence |-> 99, Value |-> "G" \o ToString(j)]]]

\* runAnalyses has returned answers of any length for labels, text, faces
\* and celebrities, and a failure record for moderation; the long texts
\* come with the longest answer for labels
InitLimits ==
    /\ interaction = NoOptions
    /\ env = [AWS_ACCESS_KEY_ID |-> "AKIA", AWS_SECRET_ACCESS_KEY |-> "secret"]
    /\ tempDir = "present"
    /\ pc = "returnedResults"
    /\ \E nl \in 0..MaxItems, stride \in 1..MaxStride, divisor \in {1, 2},
          nt \in 0..MaxItems, period \in {0, 2, 3}, width \in DOMAIN TextFillers,
          nc \in 0..MaxCelebrities, nf \in 0..MaxFaces :
            /\ width > 0 => (nl = MaxItems /\ stride = 1 /\ divisor = 1)
            /\ results =
                      ("labels" :> [Labels |-> LabelList(nl, stride, divisor)])
                      @@ ("text" :> [TextDetections |-> TextList(nt, period, width)])
                      @@ ("faces" :> [FaceDetails |-> FaceList(nf)])
                      @@ ("moderation" :> [error |-> "Rate exceeded"])
                      @@ ("celebrities" :> [CelebrityFaces |-> CelebrityList(nc)])
    /\ resultsAtReturn = results
    /\ embed = <<>>
    /\ features = DOMAIN results
    /\ resultKeys = << "labels", "text", "faces", "moderation", "celebrities" >>
    /\ ra_pc = "returned"
    /\ InitRest
    /\ InitTempIdle

SpecLimits == InitLimits /\ [][NextEmbed]_vars

\* the LINE detections of an answer, in its order
LineTexts(detections) ==
    LET at == {j \in 1..Len(detections) : detections[j].Type = "LINE"}
    IN  [k \in 1..Cardinality(at) |->
            detections[CHOOSE j \in at : Cardinality({i \in at : i < j}) = k - 1].DetectedText]

\* the first n of these lines written out in full, as the field lists them
RECURSIVE ListedInFull(_, _)
ListedInFull(lines, n) ==
    IF n = 0 THEN <<>>
    ELSE ListedInFull(lines, n - 1) \o (IF n > 1 THEN CodeUnits("\\n") ELSE <<>>)
             \o << 8226, 32 >> \o lines[n]

\* C23: the embed built from answers of any length lists at most 8 labels,
\* all the labels when there are fewer, none of them of lower confidence
\* than a label left out; at most 5 text lines, the first ones of the
\* answer (in at most 1020 characters: the lines are listed in full when
\* they fit and cut there when they do not, with a mark behind them when
\* the answer has more than 5 lines); at most 3 celebrity matches, the
\* first ones; and for the faces the attributes of the first face and of
\* no other.
C23_EmbedLimits ==
    pc = "embedded" =>
        LET labels == resultsAtReturn["labels"].Labels
            faces == resultsAtReturn["faces"].FaceDetails
            celebrities == resultsAtReturn["celebrities"].CelebrityFaces
            shown == embed["labels"]
            shownNames == {shown[i].Name : i \in 1..Len(shown)}
            lines == LineTexts(resultsAtReturn["text"].TextDetections)
            value == embed["text"]
            listed == IF Len(lines) > 5 THEN SubSeq(value, 1, Len(value) - 5) ELSE value
            full == ListedInFull(lines, IF Len(lines) < 5 THEN Len(lines) ELSE 5)
        IN  /\ Len(shown) = (IF Len(labels) < 8 THEN Len(labels) ELSE 8)
            /\ Cardinality(shownNames) = Len(shown)
            /\ \A i \in 1..Len(shown) : \E j \in 1..Len(labels) : labels[j] = shown[i]
            /\ \A i \in 1..Len(shown) : \A j \in 1..Len(labels) :
                   labels[j].Name \notin shownNames =>
                       shown[i].Confidence >= labels[j].Confidence
            /\ IF Len(lines) = 0 THEN value = CodeUnits("No text detected")
               ELSE /\ Cardinality({i \in 1..Len(value) : value[i] = 8226}) <= 5
                    /\ Len(listed) <= 1020
                    /\ listed = SubSeq(full, 1, Len(listed))
                    /\ Len(listed) < 1020 => listed = full
                    /\ Len(lines) > 5 => SubSeq(value, Len(value) - 4, Len(value)) = CodeUnits("\\n...")
            /\ IF Len(celebrities) = 0 THEN "celebrities" \notin DOMAIN embed
               ELSE /\ Len(embed["celebrities"]) =
                          (IF Len(celebrities) < 3 THEN Len(celebrities) ELSE 3)
                    /\ \A i \in 1..Len(embed["celebrities"]) :
                          embed["celebrities"][i] = celebrities[i]
            /\ IF Len(faces) = 0 THEN "faces" \notin DOMAIN embed
               ELSE embed["faces"].info =
                        << << "Gender", faces[1].Gender.Value >>,
                           << "Emotion", "HAPPY1" >> >>

\* the embed is built from 10 labels in ascending order of confidence, 10
\* text lines of more than 300 characters each, 5 celebrity matches and 2
\* faces: the text field holds three lines in full and the fourth cut, in
\* 1020 characters, and the mark behind them
C23_Witness ==
    /\ pc = "embedded"
    /\ Len(resultsAtReturn["labels"].Labels) = 10
    /\ resultsAtReturn["labels"].Labels[1].Confidence = 71
    /\ resultsAtReturn["labels"].Labels[10].Confidence = 80
    /\ Len(Lines(resultsAtReturn["text"].TextDetections)) = 10
    /\ Len(resultsAtReturn["text"].TextDetections[1].DetectedText) > 300
    /\ Len(resultsAtReturn["celebrities"].CelebrityFaces) = 5
    /\ Len(resultsAtReturn["faces"].FaceDetails) = 2
    /\ Len(embed["labels"]) = 8
    /\ Len(embed["text"]) = 1025
    /\ Cardinality({i \in 1..Len(embed["text"]) : embed["text"][i] = 8226}) = 4
    /\ SubSeq(embed["text"], 1, 4) = << 8226 >> \o CodeUnits(" t1")
    /\ SubSeq(embed["text"], 1016, 1025) = CodeUnits("xxxxx\\n...")
    /\ Len(embed["celebrities"]) = 3

(***************************************************************************)
(* The replies of one execution, checked under Spec.                       *)
(***************************************************************************)
\* C24: in one execution the replies never hold both a 'Complete!' reply
\* and an error or validation reply; once a 'Complete!' reply is sent it is
\* the only one and the last reply, no error was caught and handleError
\* was not called, then or later.
C24_SuccessXorError ==
    LET success == {"Analysis Complete!", "Face Comparison Complete!"}
        failure == ErrorContents \cup
                       { "AWS Configuration Error", "Input Required",
                         "Source Image Required", "Target Image Required",
                         "No Faces Detected" }
    IN  /\ ~(Contents \cap success # {} /\ Contents \cap failure # {})
        /\ Contents \cap success # {} =>
              /\ Cardinality({i \in DOMAIN replies : replies[i].content \in success}) = 1
              /\ LastReply.content \in success
              /\ handleErrorCalls = 0
              /\ caught = <<>>
              /\ pc \in {"finally", "done"}
        /\ (handleErrorCalls > 0 \/ Contents \cap failure # {}) =>
              /\ LastReply.content \in failure
              /\ pc \in {"finally", "done"}

\* a comparison is over: its progress replies were followed by the reply of
\* handleError and by no 'Complete!' reply
C24_Witness ==
    /\ pc = "done"
    /\ interaction.subcommand = "compare"
    /\ handleErrorCalls = 1
    /\ "Comparing Faces" \in Contents
    /\ LastReply.content \in ErrorContents
    /\ "Face Comparison Complete!" \notin Contents

(***************************************************************************)
(* The cleanup pass execute schedules, checked under Spec.                 *)
(***************************************************************************)
\* C25: an execution schedules no cleanup pass before deferReply and never
\* more than one; an execution past deferReply that is over has scheduled
\* exactly one pass, whether it ended with a success, a validation reply,
\* the configuration error or a caught failure, and has scheduled none
\* while it is not over; the pass is scheduled only when the handler has returned or
\* thrown, runAnalyses is not running and handleError has run for the
\* error caught, if any.
C25_OneCleanupScheduled ==
    /\ timers <= 1
    /\ ~deferred => timers = 0
    /\ (deferred /\ pc # "done") => timers = 0
    /\ (deferred /\ pc = "done") => timers = 1
    /\ timers = 1 =>
          /\ pc = "done"
          /\ ra_pc \notin {"called", "awaiting"}
          /\ handleErrorCalls = (IF caught = <<>> THEN 0 ELSE 1)

\* an analysis whose download failed is over: handleError has answered and
\* one cleanup pass is scheduled
C25_Witness ==
    /\ pc = "done"
    /\ interaction.subcommand = "analyze"
    /\ caught # <<>>
    /\ handleErrorCalls = 1
    /\ timers = 1
=============================================================================
